---- MODULE Spec2Model ----
(***************************************************************************)
(* A model of TPService (src/src/api/client/tp.service.ts): the retry     *)
(* executor, the metadata fetch, the entity-type capability cache, the     *)
(* where-clause compiler and the public operations that compose them.      *)
(*                                                                         *)
(* Texts (error messages, response bodies) are sequences of tokens, so     *)
(* that String.includes, template strings and replace are computed on the  *)
(* text instead of being assumed.  The SDK's McpError constructor prefixes *)
(* every message with "MCP error <code>: "; the prefix contains neither    *)
(* "status:" nor a type name and is left out.                              *)
(***************************************************************************)
EXTENDS Integers, Sequences, FiniteSets, TLC

VARIABLES
    retry,                  \* one executeWithRetry call: configuration, locals, history
    validEntityTypesCache,  \* TPService.validEntityTypesCache: NULL or a list of names
    cacheInitPromise,       \* TPService.cacheInitPromise: 0 (null) or a promise id
    cacheTimestamp,         \* TPService.cacheTimestamp
    now,                    \* Date.now()
    promises,               \* the promises returned by getValidEntityTypes(), by id
    calls,                  \* the validateEntityType calls
    initTask,               \* the initializeEntityTypeCache call
    microtasks,             \* continuations made runnable by a settled promise, in order
    lastRefresh,            \* history: when and how the last refresh of the cache ended
    compiler,               \* one validateWhereClause call: locals of the loop, result
    request,                \* one call of a public operation: arguments, position, error
    helper                  \* one call of a helper: formatWhereValue, validateInclude,
                            \* formatOrderBy or handleApiResponse

vars == <<retry, validEntityTypesCache, cacheInitPromise, cacheTimestamp, now,
          promises, calls, initTask, microtasks, lastRefresh, compiler, request,
          helper>>

cacheVars == <<validEntityTypesCache, cacheInitPromise, cacheTimestamp, now,
               promises, calls, initTask, microtasks, lastRefresh>>

(***************************************************************************)
(* Bounds of the model.                                                    *)
(***************************************************************************)
MaxRetriesBound == 3    \* retryConfig.maxRetries ranges over 1..MaxRetriesBound
MaxCalls == 2           \* validateEntityType calls in one behaviour
MaxPromises == 2        \* getValidEntityTypes() calls in one behaviour
MaxClockSteps == 1      \* 1 ms clock steps in one behaviour
MaxClockJumps == 1      \* cacheExpiryMs clock steps in one behaviour
StartTime == 3600001    \* Date.now() at construction: later than epoch + cacheExpiryMs
MaxConditions == 2      \* conditions of a filter handed to validateWhereClause
MaxValueLen == 3        \* characters of a value handed to formatWhereValue
MaxEntries == 2         \* entries of a list handed to validateInclude or formatOrderBy

(***************************************************************************)
(* Texts.                                                                  *)
(***************************************************************************)
\* String.prototype.includes on token sequences
Includes(text, pattern) ==
    \E i \in 1..(Len(text) - Len(pattern) + 1) :
        SubSeq(text, i, i + Len(pattern) - 1) = pattern

\* String.prototype.replace with a global pattern: leftmost, non-overlapping
RECURSIVE ReplaceAll(_, _, _)
ReplaceAll(text, pattern, replacement) ==
    IF Len(text) < Len(pattern) THEN text
    ELSE IF SubSeq(text, 1, Len(pattern)) = pattern
         THEN replacement \o ReplaceAll(SubSeq(text, Len(pattern) + 1, Len(text)),
                                        pattern, replacement)
         ELSE <<Head(text)>> \o ReplaceAll(Tail(text), pattern, replacement)

\* new McpError(ErrorCode.InvalidRequest, message)
McpError(message) == [kind |-> "McpError", message |-> message]
\* an Error that is not an McpError (FetchError, SyntaxError, TypeError)
RawError(message) == [kind |-> "Error", message |-> message]
NoError == [kind |-> "none", message |-> <<>>]

(***************************************************************************)
(* HTTP responses.  A body is its text and the value JSON.parse gives for  *)
(* it when the text (or the repaired text) is well formed.                 *)
(***************************************************************************)
JsonTokens == {"{", "}", "q", ","}      \* "q" is a double quote

\* JSON.parse(text) succeeds: every token is JSON and no object is directly
\* followed by a quote (the missing separator the metadata endpoint emits)
ParseOk(text) ==
    /\ \A i \in 1..Len(text) : text[i] \in JsonTokens
    /\ ~Includes(text, <<"}", "q">>)

\* the message of the SyntaxError JSON.parse throws: engines differ in
\* quoting the offending text
SyntaxErrorMessage(text, quoting) ==
    IF quoting THEN <<"Unexpected", "token">> \o text ELSE <<"Unexpected", "token">>

StatusText(status) ==
    CASE status = 200 -> <<"OK">>
      [] status = 400 -> <<"Bad", "Request">>
      [] status = 401 -> <<"Unauthorized">>
      [] OTHER -> <<"Internal", "Server", "Error">>

\* response.ok
Ok(response) == response.status >= 200 /\ response.status <= 299

Field(text) == [present |-> TRUE, text |-> text]
Missing == [present |-> FALSE, text |-> <<>>]
\* a || b on optional strings: the first operand that is present and not empty
Truthy(field) == field.present /\ field.text # <<>>

ErrorBodyData ==
    [Message : {Missing, Field(<<>>), Field(<<"Denied">>), Field(<<"status:", "400">>)},
     ErrorMessage : {Missing, Field(<<"Oops">>)},
     Description : {Missing, Field(<<"Desc">>)}]

NoData == [Message |-> Missing, ErrorMessage |-> Missing, Description |-> Missing]

ErrorStatuses == {400, 401, 500}

ErrorResponses ==
    {[type |-> "response", status |-> s, text |-> <<"{", "}">>, data |-> d] :
        s \in ErrorStatuses, d \in ErrorBodyData}
    \cup {[type |-> "response", status |-> s, text |-> <<"junk">>, data |-> NoData] :
        s \in ErrorStatuses}

\* the metadata documents the remote can declare: Items is a list of names,
\* is missing, or is not iterable
MetadataDocs ==
    {[items |-> "list", names |-> n] :
        n \in {<<>>, <<"">>, <<"UserStory", "Widget">>,
               <<"Widget", "Bug", "Widget">>}}
    \cup {[items |-> "missing", names |-> <<>>],
          [items |-> "notIterable", names |-> <<>>]}

BodyTexts ==
    {<<"{", "}">>,                  \* well formed
     <<"{", "}", "q", "}">>,        \* repaired by the separator substitution
     <<"{", "}", "q", "junk">>,     \* not well formed after the repair either
     <<"status:", "400">>}          \* plain text

OkResponses ==
    {[type |-> "response", status |-> 200, text |-> t, data |-> d] :
        t \in BodyTexts, d \in MetadataDocs}

\* fetch() rejects: no response
TransportFailures ==
    {[type |-> "reject", error |-> RawError(m)] :
        m \in {<<"ECONNRESET">>, <<"proxy", "status:", "400">>}}

Fetched == TransportFailures \cup ErrorResponses \cup OkResponses

\* the HTTP status of one attempt, 0 when fetch() rejected
StatusOf(fetched) == IF fetched.type = "reject" THEN 0 ELSE fetched.status

(***************************************************************************)
(* extractErrorMessage, handleApiResponse and the operation closures.      *)
(***************************************************************************)
\* a variant that always answers with the status text
extractErrorMessage_StatusText(response) == StatusText(response.status)

extractErrorMessage(response) ==
    IF ParseOk(response.text)
    THEN IF Truthy(response.data.Message) THEN response.data.Message.text
         ELSE IF Truthy(response.data.ErrorMessage) THEN response.data.ErrorMessage.text
         ELSE IF Truthy(response.data.Description) THEN response.data.Description.text
         ELSE StatusText(response.status)
    ELSE StatusText(response.status)

\* the outcome of one invocation of an operation closure; kind and repairs
\* record what happened for the history of the call
Returns(value) == [type |-> "ok", value |-> value, kind |-> "returned", repairs |-> 0]
Throws(error, kind) == [type |-> "err", error |-> error, kind |-> kind, repairs |-> 0]

handleApiResponse(response, context, quoting) ==
    IF ~Ok(response)
    THEN Throws(McpError(<<context, "failed:", ToString(response.status), "-">>
                         \o extractErrorMessage(response)), "http")
    ELSE IF ParseOk(response.text)
         THEN Returns(response.data)
         ELSE Throws(RawError(SyntaxErrorMessage(response.text, quoting)), "syntax")

\* the closure searchEntities, getEntity, createEntity, updateEntity and
\* createComment hand to executeWithRetry
EntityOperation(fetched, context, quoting) ==
    IF fetched.type = "reject" THEN Throws(fetched.error, "reject")
    ELSE handleApiResponse(fetched, context, quoting)

\* the textual repair of fetchMetadata
FixedText(text) ==
    ReplaceAll(ReplaceAll(text, <<"}", "q">>, <<"}", ",", "q">>),
               <<"}", "}">>, <<"}", "}">>)

\* the closure fetchMetadata hands to executeWithRetry
MetadataOperation(fetched, quoting) ==
    IF fetched.type = "reject" THEN Throws(fetched.error, "reject")
    ELSE IF ~Ok(fetched)
    THEN Throws(McpError(<<"fetch metadata", "failed:", ToString(fetched.status), "-">>
                         \o extractErrorMessage(fetched)), "http")
    ELSE IF ParseOk(fetched.text) THEN Returns(fetched.data)
    ELSE IF ParseOk(FixedText(fetched.text))
         THEN [Returns(fetched.data) EXCEPT !.repairs = 1]
         ELSE [Throws(McpError(<<"Failed to parse metadata response:">>
                               \o SyntaxErrorMessage(FixedText(fetched.text), quoting)),
                      "parse")
               EXCEPT !.repairs = 1]

Operation(op, fetched, context, quoting) ==
    IF op = "metadata" THEN MetadataOperation(fetched, quoting)
    ELSE EntityOperation(fetched, context, quoting)

(***************************************************************************)
(* executeWithRetry.                                                       *)
(***************************************************************************)
\* the default retryConfig of the constructor
DefaultMaxRetries == 3
DefaultDelayMs == 1000
DefaultBackoffFactor == 2

RetryConfigs ==
    [maxRetries : 1..MaxRetriesBound,
     delayMs : {0, DefaultDelayMs},
     backoffFactor : {1, DefaultBackoffFactor}]

DefaultRetryConfig ==
    [maxRetries |-> DefaultMaxRetries, delayMs |-> DefaultDelayMs,
     backoffFactor |-> DefaultBackoffFactor]

\* a variant of the test that also treats a parse failure as terminal
NonRetryable_ParseTerminal(error) ==
    /\ error.kind = "McpError"
    /\ \/ Includes(error.message, <<"status:", "400">>)
       \/ Includes(error.message, <<"status:", "401">>)
       \/ Includes(error.message, <<"Failed to parse metadata response:">>)

\* the test of the catch block: an McpError whose message contains
\* 'status: 400' or 'status: 401' is rethrown
NonRetryable(error) ==
    /\ error.kind = "McpError"
    /\ \/ Includes(error.message, <<"status:", "400">>)
       \/ Includes(error.message, <<"status:", "401">>)

\* the McpError thrown after the loop
RetriesExhausted(context, maxRetries, lastError) ==
    McpError(<<"Failed to", context, "after", ToString(maxRetries), "attempts:">>
             \o lastError.message)

NoResult == [type |-> "none"]

\* the locals of a call on entry, with the history the properties speak of
RetryStart(config, op, context) ==
    [op |-> op, context |-> context,
     maxRetries |-> config.maxRetries, delayMs |-> config.delayMs,
     backoffFactor |-> config.backoffFactor,
     pc |-> "call", attempt |-> 1, delay |-> config.delayMs, lastError |-> NoError,
     invocations |-> 0, statuses |-> <<>>, kinds |-> <<>>, delays |-> <<>>,
     repairs |-> 0, result |-> NoResult]

\* one iteration of the loop body up to the next suspension point: the
\* operation is invoked and answers; the catch block classifies a failure
OnAttempt(r, fetched, quoting) ==
    LET out == Operation(r.op, fetched, r.context, quoting)
        invoked == [r EXCEPT !.invocations = @ + 1,
                             !.statuses = Append(@, StatusOf(fetched)),
                             !.kinds = Append(@, out.kind),
                             !.repairs = @ + out.repairs]
    IN  IF out.type = "ok"
        THEN [invoked EXCEPT !.pc = "returned",
                             !.result = [type |-> "ok", value |-> out.value]]
        ELSE LET caught == [invoked EXCEPT !.lastError = out.error]
             IN  IF NonRetryable(out.error)
                 THEN [caught EXCEPT !.pc = "thrown",
                                     !.result = [type |-> "err", error |-> out.error]]
                 ELSE IF r.attempt = r.maxRetries
                 THEN [caught EXCEPT !.pc = "thrown",
                                     !.result = [type |-> "err",
                                                 error |-> RetriesExhausted(r.context,
                                                               r.maxRetries, out.error)]]
                 ELSE [caught EXCEPT !.pc = "sleep"]

\* a variant whose delay does not grow
AfterSleep_ConstantDelay(r) ==
    [r EXCEPT !.delays = Append(@, r.delay),
              !.attempt = @ + 1,
              !.pc = "call"]

\* a variant whose loop does not increment attempt
AfterSleep_SameAttempt(r) ==
    [r EXCEPT !.delays = Append(@, r.delay),
              !.delay = @ * r.backoffFactor,
              !.pc = "call"]

\* the timer of `await setTimeout(delay)` fires: the delay grows, the loop
\* increments attempt
AfterSleep(r) ==
    [r EXCEPT !.delays = Append(@, r.delay),
              !.delay = @ * r.backoffFactor,
              !.attempt = @ + 1,
              !.pc = "call"]

Finished(r) == r.pc \in {"returned", "thrown"}

\* a whole call, given what fetch() answers on the successive attempts
RECURSIVE executeWithRetry(_, _, _)
executeWithRetry(r, answers, quoting) ==
    IF Finished(r) \/ (r.pc = "call" /\ answers = <<>>) THEN r
    ELSE IF r.pc = "sleep" THEN executeWithRetry(AfterSleep(r), answers, quoting)
    ELSE executeWithRetry(OnAttempt(r, Head(answers), quoting), Tail(answers), quoting)

ContextOf(op) == IF op = "metadata" THEN "fetch metadata" ELSE "search UserStorys"

(***************************************************************************)
(* One executeWithRetry call, step by step.                                *)
(***************************************************************************)
RetryInit ==
    retry \in {RetryStart(c, op, ContextOf(op)) :
                   c \in RetryConfigs, op \in {"entity", "metadata"}}

Attempt ==
    /\ retry.pc = "call"
    /\ \E fetched \in Fetched, quoting \in BOOLEAN :
           retry' = OnAttempt(retry, fetched, quoting)
    /\ UNCHANGED <<helper, cacheVars, compiler, request>>

Wake ==
    /\ retry.pc = "sleep"
    /\ retry' = AfterSleep(retry)
    /\ UNCHANGED <<helper, cacheVars, compiler, request>>

(***************************************************************************)
(* fetchMetadata and getValidEntityTypes.                                  *)
(***************************************************************************)
Contains(list, name) == \E i \in 1..Len(list) : list[i] = name

\* a variant of the static list without its first entry
staticValidEntityTypes_NoUserStory ==
    <<"Bug", "Task", "Feature",
      "Epic", "PortfolioEpic", "Solution",
      "Request", "Impediment", "TestCase", "TestPlan",
      "Project", "Team", "Iteration", "TeamIteration",
      "Release", "Program", "Comment", "Attachment",
      "EntityState", "Priority", "Process", "GeneralUser">>

staticValidEntityTypes ==
    <<"UserStory", "Bug", "Task", "Feature",
      "Epic", "PortfolioEpic", "Solution",
      "Request", "Impediment", "TestCase", "TestPlan",
      "Project", "Team", "Iteration", "TeamIteration",
      "Release", "Program", "Comment", "Attachment",
      "EntityState", "Priority", "Process", "GeneralUser">>

\* the list getValidEntityTypes returns when the response declares no name
FallbackOnEmpty ==
    staticValidEntityTypes \o
    <<"TestCase", "TestPlan", "TestCaseRun", "Build",
      "Assignable", "General", "Relation", "Role",
      "CustomField", "Milestone", "TimeSheet", "Context">>

\* the list getValidEntityTypes returns from its catch block
FallbackOnError ==
    staticValidEntityTypes \o
    <<"TestCase", "TestPlan", "TestCaseRun", "Build",
      "Assignable", "General", "Relation", "Role">>

\* Array.prototype.sort() on the names the model's remote declares: the
\* order of their UTF-16 code units
NameOrder == <<"Bug", "UserStory", "Widget">>
Rank(name) == CHOOSE i \in 1..Len(NameOrder) : NameOrder[i] = name

RECURSIVE Insert(_, _)
Insert(sorted, name) ==
    IF sorted = <<>> THEN <<name>>
    ELSE IF Rank(name) < Rank(Head(sorted)) THEN <<name>> \o sorted
    ELSE <<Head(sorted)>> \o Insert(Tail(sorted), name)

RECURSIVE Sort(_)
Sort(list) == IF list = <<>> THEN <<>> ELSE Insert(Sort(Tail(list)), Head(list))

\* the loop over metadata.Items: a name is pushed when it is truthy and new
RECURSIVE CollectNames(_, _)
CollectNames(names, entityTypes) ==
    IF names = <<>> THEN entityTypes
    ELSE CollectNames(Tail(names),
                      IF Head(names) # "" /\ ~Contains(entityTypes, Head(names))
                      THEN Append(entityTypes, Head(names))
                      ELSE entityTypes)

\* fetchMetadata: the retried closure under the default retryConfig, then
\* the catch block that wraps what is not an McpError
fetchMetadata(answers, quoting) ==
    LET r == executeWithRetry(RetryStart(DefaultRetryConfig, "metadata", "fetch metadata"),
                              answers, quoting)
    IN  IF r.result.type = "err" /\ r.result.error.kind # "McpError"
        THEN [type |-> "err",
              error |-> McpError(<<"Failed to fetch metadata:">> \o r.result.error.message)]
        ELSE r.result

Resolved(list) == [state |-> "resolved", list |-> list, error |-> NoError]
Rejected(error) == [state |-> "rejected", list |-> <<>>, error |-> error]

\* how the promise of getValidEntityTypes() settles for a fetchMetadata result
getValidEntityTypes(metadata) ==
    IF metadata.type = "err"
    THEN IF metadata.error.kind = "McpError"
         THEN Rejected(metadata.error)
         ELSE Resolved(FallbackOnError)
    ELSE IF metadata.value.items = "notIterable"
    THEN Resolved(FallbackOnError)          \* the for-of throws a TypeError
    ELSE LET entityTypes == IF metadata.value.items = "list"
                            THEN CollectNames(metadata.value.names, <<>>)
                            ELSE <<>>
         IN  IF Len(entityTypes) = 0
             THEN Resolved(FallbackOnEmpty)
             ELSE Resolved(Sort(entityTypes))

\* what the metadata endpoint answers to the attempts of the discovery
\* calls of the cache
DiscoveryAnswers ==
    {[type |-> "reject", error |-> RawError(<<"ECONNRESET">>)]}
    \cup {[type |-> "response", status |-> 500, text |-> <<"junk">>, data |-> NoData]}
    \cup {[type |-> "response", status |-> 200, text |-> <<"{", "}">>, data |-> d] :
             d \in MetadataDocs}
    \cup {[type |-> "response", status |-> 200, text |-> <<"{", "}", "q", "junk">>,
           data |-> [items |-> "missing", names |-> <<>>]]}

AnswerSeqs == [1..DefaultMaxRetries -> DiscoveryAnswers]

\* every way a getValidEntityTypes() promise can settle (the SyntaxError
\* text of the engine does not matter to the cache: it is taken unquoted)
DiscoveryOutcomes ==
    {getValidEntityTypes(fetchMetadata(answers, FALSE)) : answers \in AnswerSeqs}

(***************************************************************************)
(* validateEntityType and initializeEntityTypeCache.                       *)
(***************************************************************************)
cacheExpiryMs == 3600000

NULL == [present |-> FALSE, list |-> <<>>]
Cached(list) == [present |-> TRUE, list |-> list]

RequestTypes == {"UserStory", "Widget", "Milestone"}

Calls == 1..MaxCalls
\* the id of the initializeEntityTypeCache task among the awaiters
InitId == MaxCalls + 1

IdleCall ==
    [pc |-> "idle", type |-> "", promise |-> 0, starter |-> FALSE,
     afterPriming |-> FALSE, checked |-> NULL, result |-> "", error |-> NoError]

\* a variant with the operands of the subtraction swapped
isCacheExpired_Swapped == cacheTimestamp - now > cacheExpiryMs

\* a variant for which a list as old as its lifetime has expired
isCacheExpired_AtLifetime == now - cacheTimestamp >= cacheExpiryMs

\* const isCacheExpired = Date.now() - this.cacheTimestamp > this.cacheExpiryMs
isCacheExpired == now - cacheTimestamp > cacheExpiryMs

\* if (!this.validEntityTypesCache || isCacheExpired)
RefreshNeeded == ~validEntityTypesCache.present \/ isCacheExpired

\* a variant that never sees the refresh in progress
RefreshInProgress_Never == FALSE

\* if (this.cacheInitPromise)
RefreshInProgress == cacheInitPromise # 0

InvalidEntityType(type, list) ==
    McpError(<<"Invalid entity type:", type, "Valid entity types are:">> \o list)

\* a variant whose message enumerates the static list, as the catch block does
ValidateAgainst_StaticMessage(call, list) ==
    IF Contains(list, call.type)
    THEN [call EXCEPT !.pc = "returned", !.checked = Cached(list), !.result = call.type]
    ELSE [call EXCEPT !.pc = "thrown", !.checked = Cached(list),
                      !.error = InvalidEntityType(call.type, staticValidEntityTypes)]

\* "Validate against the cache": the end of the try block
ValidateAgainst(call, list) ==
    IF Contains(list, call.type)
    THEN [call EXCEPT !.pc = "returned", !.checked = Cached(list), !.result = call.type]
    ELSE [call EXCEPT !.pc = "thrown", !.checked = Cached(list),
                      !.error = InvalidEntityType(call.type, list)]

\* the outer catch block: an McpError is rethrown, anything else falls back
\* to the static validation
OuterCatch(call, error) ==
    IF error.kind = "McpError" THEN [call EXCEPT !.pc = "thrown", !.error = error]
    ELSE ValidateAgainst(call, staticValidEntityTypes)

Issued(c) == calls[c].pc # "idle"
MayIssue(c) ==
    /\ microtasks = <<>>
    /\ calls[c].pc = "idle"
    /\ IF c = 1 THEN TRUE ELSE Issued(c - 1)

Begin(c, type) ==
    [calls[c] EXCEPT !.type = type, !.afterPriming = (initTask.pc \in {"done", "failed"})]

\* a call that finds a fresh cached list: no suspension point
ValidateCached(c) ==
    /\ MayIssue(c)
    /\ ~RefreshNeeded
    /\ \E type \in RequestTypes :
           calls' = [calls EXCEPT ![c] =
                        ValidateAgainst(Begin(c, type), validEntityTypesCache.list)]
    /\ UNCHANGED <<helper, compiler, request, lastRefresh, retry, validEntityTypesCache,
                   cacheInitPromise, cacheTimestamp, now,
                   promises, initTask, microtasks>>

\* a call that finds a refresh in progress awaits its promise; a promise
\* that has settled already resumes the call in the next microtask
ValidateJoin(c) ==
    /\ MayIssue(c)
    /\ RefreshNeeded
    /\ RefreshInProgress
    /\ \E type \in RequestTypes :
           calls' = [calls EXCEPT ![c] =
                        [Begin(c, type) EXCEPT !.pc = "awaiting",
                                               !.promise = cacheInitPromise]]
    /\ IF promises[cacheInitPromise].state = "pending"
       THEN /\ promises' = [promises EXCEPT ![cacheInitPromise].awaiters = Append(@, c)]
            /\ UNCHANGED microtasks
       ELSE /\ microtasks' = <<c>>
            /\ UNCHANGED promises
    /\ UNCHANGED <<helper, compiler, request, lastRefresh, retry, validEntityTypesCache,
                   cacheInitPromise, cacheTimestamp, now,
                   initTask>>

NewPromise(startedBy, awaiter) ==
    [state |-> "pending", list |-> <<>>, error |-> NoError,
     startedBy |-> startedBy, awaiters |-> <<awaiter>>]

\* a call that starts the refresh: cacheInitPromise is set before the await
ValidateStart(c) ==
    /\ MayIssue(c)
    /\ RefreshNeeded
    /\ ~RefreshInProgress
    /\ Len(promises) < MaxPromises
    /\ promises' = Append(promises, NewPromise("validate", c))
    /\ cacheInitPromise' = Len(promises) + 1
    /\ \E type \in RequestTypes :
           calls' = [calls EXCEPT ![c] =
                        [Begin(c, type) EXCEPT !.pc = "awaiting", !.starter = TRUE,
                                               !.promise = Len(promises) + 1]]
    /\ UNCHANGED <<helper, compiler, request, lastRefresh, retry, validEntityTypesCache,
                   cacheTimestamp, now, initTask,
                   microtasks>>

\* the priming call up to its await: it looks at validEntityTypesCache only,
\* not at cacheInitPromise
initializeEntityTypeCache ==
    /\ microtasks = <<>>
    /\ initTask.pc = "idle"
    /\ ~validEntityTypesCache.present
    /\ Len(promises) < MaxPromises
    /\ promises' = Append(promises, NewPromise("init", InitId))
    /\ cacheInitPromise' = Len(promises) + 1
    /\ initTask' = [pc |-> "awaiting", promise |-> Len(promises) + 1]
    /\ UNCHANGED <<helper, compiler, request, lastRefresh, retry, validEntityTypesCache,
                   cacheTimestamp, now, calls, microtasks>>

\* a variant in which the server primes the cache at any time, also while
\* it serves requests
initializeCache_AnyTime == initializeEntityTypeCache

\* the server primes the cache from its constructor (part_003), before it
\* serves a request: no validateEntityType call has been issued
initializeCache ==
    /\ \A c \in Calls : ~Issued(c)
    /\ initializeEntityTypeCache

\* a discovery call ends: the promise settles and its awaiters become
\* runnable in the order of their awaits
Settle(p) ==
    /\ microtasks = <<>>
    /\ p <= Len(promises)
    /\ promises[p].state = "pending"
    /\ \E outcome \in DiscoveryOutcomes :
           promises' = [promises EXCEPT ![p].state = outcome.state,
                                        ![p].list = outcome.list,
                                        ![p].error = outcome.error]
    /\ microtasks' = promises[p].awaiters
    /\ UNCHANGED <<helper, compiler, request, lastRefresh, retry, validEntityTypesCache,
                   cacheInitPromise, cacheTimestamp, now,
                   calls, initTask>>

NextTask == Head(microtasks)

\* the list is one of the lists bundled with the service
IsFallback(list) == list \in {staticValidEntityTypes, FallbackOnEmpty, FallbackOnError}

\* a variant whose catch block keeps the list that is cached
ResumeStarter_KeepList(c) ==
    /\ microtasks # <<>> /\ NextTask = c
    /\ calls[c].starter
    /\ LET p == promises[calls[c].promise]
           list == IF p.state = "resolved" THEN p.list
                   ELSE IF validEntityTypesCache.present THEN validEntityTypesCache.list
                   ELSE staticValidEntityTypes
       IN  /\ validEntityTypesCache' = Cached(list)
           /\ cacheTimestamp' = IF p.state = "resolved" THEN now ELSE cacheTimestamp
           /\ cacheInitPromise' = 0
           /\ calls' = [calls EXCEPT ![c] = ValidateAgainst(calls[c], list)]
           /\ lastRefresh' = [at |-> now, fallback |-> IsFallback(list)]
    /\ microtasks' = Tail(microtasks)
    /\ UNCHANGED <<helper, compiler, request, retry, now, promises, initTask>>

\* the call that started the refresh resumes: try / catch / finally, then
\* the validation
ResumeStarter(c) ==
    /\ microtasks # <<>> /\ NextTask = c
    /\ calls[c].starter
    /\ LET p == promises[calls[c].promise]
           list == IF p.state = "resolved" THEN p.list ELSE staticValidEntityTypes
       IN  /\ validEntityTypesCache' = Cached(list)
           /\ cacheTimestamp' = IF p.state = "resolved" THEN now ELSE cacheTimestamp
           /\ cacheInitPromise' = 0
           /\ calls' = [calls EXCEPT ![c] = ValidateAgainst(calls[c], list)]
           /\ lastRefresh' = [at |-> now, fallback |-> IsFallback(list)]
    /\ microtasks' = Tail(microtasks)
    /\ UNCHANGED <<helper, compiler, request, retry, now, promises, initTask>>

\* a call that awaited the shared promise resumes
ResumeWaiter(c) ==
    /\ microtasks # <<>> /\ NextTask = c
    /\ ~calls[c].starter
    /\ LET p == promises[calls[c].promise]
       IN  IF p.state = "resolved"
           THEN /\ validEntityTypesCache' = Cached(p.list)
                /\ calls' = [calls EXCEPT ![c] = ValidateAgainst(calls[c], p.list)]
           ELSE /\ calls' = [calls EXCEPT ![c] = OuterCatch(calls[c], p.error)]
                /\ UNCHANGED validEntityTypesCache
    /\ microtasks' = Tail(microtasks)
    /\ UNCHANGED <<helper, compiler, request, lastRefresh, retry, cacheInitPromise,
                   cacheTimestamp, now, promises, initTask>>

\* initializeEntityTypeCache resumes: the catch block only logs
ResumeInit ==
    /\ microtasks # <<>> /\ NextTask = InitId
    /\ LET p == promises[initTask.promise]
       IN  IF p.state = "resolved"
           THEN /\ validEntityTypesCache' = Cached(p.list)
                /\ cacheTimestamp' = now
                /\ cacheInitPromise' = 0
                /\ initTask' = [initTask EXCEPT !.pc = "done"]
                /\ lastRefresh' = [at |-> now, fallback |-> IsFallback(p.list)]
           ELSE /\ initTask' = [initTask EXCEPT !.pc = "failed"]
                /\ UNCHANGED <<validEntityTypesCache, cacheTimestamp, cacheInitPromise,
                               lastRefresh>>
    /\ microtasks' = Tail(microtasks)
    /\ UNCHANGED <<helper, compiler, request, retry, now, promises, calls>>

\* time passes: by a millisecond, or by the lifetime of the cache
ClockStep ==
    /\ microtasks = <<>>
    /\ (now - StartTime) % cacheExpiryMs < MaxClockSteps
    /\ now' = now + 1
    /\ UNCHANGED <<helper, compiler, request, lastRefresh, retry, validEntityTypesCache,
                   cacheInitPromise, cacheTimestamp,
                   promises, calls, initTask, microtasks>>

ClockJump ==
    /\ microtasks = <<>>
    /\ (now - StartTime) \div cacheExpiryMs < MaxClockJumps
    /\ now' = now + cacheExpiryMs
    /\ UNCHANGED <<helper, compiler, request, lastRefresh, retry, validEntityTypesCache,
                   cacheInitPromise, cacheTimestamp,
                   promises, calls, initTask, microtasks>>

(***************************************************************************)
(* Strings of the filter compiler.  A filter, a condition and a compiled   *)
(* clause are strings; the operators below compute on their characters.    *)
(***************************************************************************)
\* where[i] with a 1-based index; "" stands for undefined
CharAt(s, i) == IF i >= 1 /\ i <= Len(s) THEN SubSeq(s, i, i) ELSE ""

\* the characters from..to of s, cut at the ends of s
Slice(s, from, to) ==
    LET a == IF from < 1 THEN 1 ELSE from
        b == IF to > Len(s) THEN Len(s) ELSE to
    IN  IF a > b THEN "" ELSE SubSeq(s, a, b)

HasChar(set, ch) == \E k \in 1..Len(set) : SubSeq(set, k, k) = ch

UpperCaseLetters == "ABCDEFGHIJKLMNOPQRSTUVWXYZ"
LowerCaseLetters == "abcdefghijklmnopqrstuvwxyz"
Digits == "0123456789"

\* \s of a regular expression, on the characters the model's filters use
IsSpace(ch) == ch \in {" ", "\t"}
\* \w of a regular expression
IsWordChar(ch) ==
    ch # "" /\ HasChar(UpperCaseLetters \o LowerCaseLetters \o Digits \o "_", ch)

LowerChar(ch) ==
    IF ch # "" /\ HasChar(UpperCaseLetters, ch)
    THEN CharAt(LowerCaseLetters,
                CHOOSE k \in 1..Len(UpperCaseLetters) : CharAt(UpperCaseLetters, k) = ch)
    ELSE ch

\* String.prototype.toLowerCase
RECURSIVE toLowerCase(_)
toLowerCase(s) ==
    IF s = "" THEN "" ELSE LowerChar(CharAt(s, 1)) \o toLowerCase(Slice(s, 2, Len(s)))

\* the index of the first character at or after k that is not whitespace
RECURSIVE SkipSpaces(_, _)
SkipSpaces(s, k) == IF k <= Len(s) /\ IsSpace(CharAt(s, k)) THEN SkipSpaces(s, k + 1) ELSE k

\* the index of the first whitespace at or after k, Len(s) + 1 when none
RECURSIVE FirstSpace(_, _)
FirstSpace(s, k) == IF k <= Len(s) /\ ~IsSpace(CharAt(s, k)) THEN FirstSpace(s, k + 1) ELSE k

RECURSIVE TrimEnd(_)
TrimEnd(s) == IF s # "" /\ IsSpace(CharAt(s, Len(s))) THEN TrimEnd(Slice(s, 1, Len(s) - 1)) ELSE s

\* String.prototype.trim
trim(s) == TrimEnd(Slice(s, SkipSpaces(s, 1), Len(s)))

\* String.prototype.startsWith
startsWith(s, prefix) == Slice(s, 1, Len(prefix)) = prefix

\* replace(/\s+/g, '')
RECURSIVE RemoveWhitespace(_)
RemoveWhitespace(s) ==
    IF s = "" THEN ""
    ELSE (IF IsSpace(CharAt(s, 1)) THEN "" ELSE CharAt(s, 1))
         \o RemoveWhitespace(Slice(s, 2, Len(s)))

\* a variant that leaves the single quotes as they are
DoubleQuotes_None(s) == s

\* replace(/'/g, "''")
RECURSIVE DoubleQuotes(_)
DoubleQuotes(s) ==
    IF s = "" THEN ""
    ELSE (IF CharAt(s, 1) = "'" THEN "''" ELSE CharAt(s, 1))
         \o DoubleQuotes(Slice(s, 2, Len(s)))

\* Array.prototype.join
RECURSIVE Join(_, _)
Join(list, separator) ==
    IF list = <<>> THEN ""
    ELSE IF Len(list) = 1 THEN list[1]
    ELSE list[1] \o separator \o Join(Tail(list), separator)

(***************************************************************************)
(* formatWhereValue and formatWhereField.                                  *)
(***************************************************************************)
IsQuoteChar(ch) == ch \in {"'", "\""}

\* a variant that keeps the quotes around the value
Unquoted_Keep(strValue) == strValue

\* replace(/^['"]|['"]$/g, ''): a quote at the start and a quote at the end
\* are removed, each on its own
Unquoted(strValue) ==
    LET head == IF IsQuoteChar(CharAt(strValue, 1)) THEN Slice(strValue, 2, Len(strValue))
                ELSE strValue
    IN  IF IsQuoteChar(CharAt(head, Len(head))) THEN Slice(head, 1, Len(head) - 1) ELSE head

\* a variant that emits the value as it is, without quotes
formatWhereValue_Bare(value) == value

\* the string branch of formatWhereValue: the filter compiler passes strings
formatWhereValue(value) == "'" \o DoubleQuotes(Unquoted(value)) \o "'"

CustomFieldPrefix == "CustomField."

formatWhereField(field) ==
    IF startsWith(field, CustomFieldPrefix)
    THEN "cf_" \o Slice(field, Len(CustomFieldPrefix) + 1, Len(field))
    ELSE RemoveWhitespace(field)

(***************************************************************************)
(* validateWhereClause: the quote-aware split, then the conditions.        *)
(***************************************************************************)
\* the locals of the splitting loop on entry; i is the index of the code
\* (0-based); splits records the indices at which a separator was taken
ScanStart(where) ==
    [where |-> where, i |-> 0, conditions |-> <<>>, currentCondition |-> "",
     inQuote |-> FALSE, quoteChar |-> "", splits |-> <<>>]

\* a variant that looks for the separator inside quoted spans too
ScanStep_IgnoreQuotes(s) ==
    LET char == CharAt(s.where, s.i + 1)
        toggles == IsQuoteChar(char) /\ CharAt(s.where, s.i) # "\\"
        opened == toggles /\ ~s.inQuote
        closed == toggles /\ s.inQuote /\ char = s.quoteChar
        q == [s EXCEPT !.inQuote = IF opened THEN TRUE ELSE IF closed THEN FALSE ELSE @,
                       !.quoteChar = IF opened THEN char ELSE @]
    IN  IF toLowerCase(Slice(s.where, s.i + 1, s.i + 4)) = " and"
        THEN [q EXCEPT !.conditions = Append(@, trim(s.currentCondition)),
                       !.currentCondition = "",
                       !.splits = Append(@, s.i),
                       !.i = @ + 4]
        ELSE [q EXCEPT !.currentCondition = @ \o char, !.i = @ + 1]

\* one iteration of the loop over the characters of the filter
ScanStep(s) ==
    LET char == CharAt(s.where, s.i + 1)
        toggles == IsQuoteChar(char) /\ CharAt(s.where, s.i) # "\\"
        opened == toggles /\ ~s.inQuote
        closed == toggles /\ s.inQuote /\ char = s.quoteChar
        q == [s EXCEPT !.inQuote = IF opened THEN TRUE ELSE IF closed THEN FALSE ELSE @,
                       !.quoteChar = IF opened THEN char ELSE @]
    IN  IF ~q.inQuote /\ toLowerCase(Slice(s.where, s.i + 1, s.i + 4)) = " and"
        THEN [q EXCEPT !.conditions = Append(@, trim(s.currentCondition)),
                       !.currentCondition = "",
                       !.splits = Append(@, s.i),
                       !.i = @ + 4]
        ELSE [q EXCEPT !.currentCondition = @ \o char, !.i = @ + 1]

\* the loop has consumed the filter
ScanDone(s) == s.i >= Len(s.where)

\* conditions.push(currentCondition.trim()) after the loop
ScanEnd(s) == Append(s.conditions, trim(s.currentCondition))

RECURSIVE Scan(_)
Scan(s) == IF ScanDone(s) THEN s ELSE Scan(ScanStep(s))

\* a match of word1\s+word2... at index k, ignoring case: the index after
\* the match, 0 when there is none
RECURSIVE MatchWords(_, _, _)
MatchWords(s, k, words) ==
    LET e == k + Len(Head(words))
    IN  IF toLowerCase(Slice(s, k, e - 1)) # Head(words) THEN 0
        ELSE IF Len(words) = 1 THEN e
        ELSE IF SkipSpaces(s, e) = e THEN 0
        ELSE MatchWords(s, SkipSpaces(s, e), Tail(words))

\* /\bword1\s+word2...\b/i matches at index k
MatchesAt(s, k, words) ==
    /\ ~IsWordChar(CharAt(s, k - 1))
    /\ MatchWords(s, k, words) # 0
    /\ ~IsWordChar(CharAt(s, MatchWords(s, k, words)))

\* RegExp.prototype.test
Test(s, words) == \E k \in 1..Len(s) : MatchesAt(s, k, words)

\* split(regexp)[0]: the text before the leftmost match
BeforeMatch(s, words) ==
    Slice(s, 1, (CHOOSE k \in 1..Len(s) :
                    /\ MatchesAt(s, k, words)
                    /\ \A j \in 1..(k - 1) : ~MatchesAt(s, j, words)) - 1)

IsNull == <<"is", "null">>
IsNotNull == <<"is", "not", "null">>

\* the one-word operators of the comparison pattern
Operators == {"eq", "ne", "gt", "gte", "lt", "lte", "in", "contains"}

NoMatch == [matched |-> FALSE, field |-> "", operator |-> "", value |-> ""]

\* the runs of characters of s that are not whitespace, from index k on, each
\* as <<first index, last index>>
RECURSIVE Runs(_, _)
Runs(s, k) ==
    IF SkipSpaces(s, k) > Len(s) THEN <<>>
    ELSE <<<<SkipSpaces(s, k), FirstSpace(s, SkipSpaces(s, k)) - 1>>>>
         \o Runs(s, FirstSpace(s, SkipSpaces(s, k)))

RunText(s, run) == toLowerCase(Slice(s, run[1], run[2]))

\* the groups of the comparison pattern, given the runs of the condition:
\* the field is the first run, which starts the condition, the operator the
\* next run (two runs for "not contains"), the value the rest
MatchRuns(condition, runs) ==
    IF Len(runs) >= 3 /\ runs[1][1] = 1 /\ RunText(condition, runs[2]) \in Operators
    THEN [matched |-> TRUE,
          field |-> Slice(condition, 1, runs[1][2]),
          operator |-> Slice(condition, runs[2][1], runs[2][2]),
          value |-> Slice(condition, runs[3][1], Len(condition))]
    ELSE IF /\ Len(runs) >= 4 /\ runs[1][1] = 1
            /\ RunText(condition, runs[2]) = "not"
            /\ RunText(condition, runs[3]) = "contains"
    THEN [matched |-> TRUE,
          field |-> Slice(condition, 1, runs[1][2]),
          operator |-> Slice(condition, runs[2][1], runs[3][2]),
          value |-> Slice(condition, runs[4][1], Len(condition))]
    ELSE NoMatch

\* condition.match(/^([^\s]+)\s+(eq|ne|gt|gte|lt|lte|in|contains|not\s+contains)\s+(.+)$/i)
MatchCondition(condition) == MatchRuns(condition, Runs(condition, 1))

\* what a condition compiles to, with the field it gave to formatWhereField
Compiled(shape, field, formattedField, rest) ==
    [ok |-> TRUE, shape |-> shape, field |-> field, formattedField |-> formattedField,
     text |-> formattedField \o rest]

\* a null check: the field is the text before the match
NullCheck(shape, field) == Compiled(shape, field, formatWhereField(field), " " \o shape)

\* const [, field, operator, value] = match, and the template of the result
Comparison(condition, match) ==
    IF ~match.matched
    THEN [ok |-> FALSE, shape |-> "invalid", field |-> "", formattedField |-> "",
          text |-> condition]
    ELSE Compiled("comparison", match.field, formatWhereField(match.field),
                  " " \o toLowerCase(match.operator) \o " "
                  \o formatWhereValue(trim(match.value)))

\* the callback of conditions.map
CompileCondition(condition) ==
    IF Test(condition, IsNull)
    THEN NullCheck("is null", trim(BeforeMatch(condition, IsNull)))
    ELSE IF Test(condition, IsNotNull)
    THEN NullCheck("is not null", trim(BeforeMatch(condition, IsNotNull)))
    ELSE Comparison(condition, MatchCondition(condition))

\* conditions.map(...): the callback runs on the conditions in order; the
\* first one that throws ends the map
CompileAll(conditions) == [k \in 1..Len(conditions) |-> CompileCondition(conditions[k])]

Texts(compiled) == [k \in 1..Len(compiled) |-> compiled[k].text]

Failing(compiled) == {k \in 1..Len(compiled) : ~compiled[k].ok}

FirstFailing(compiled) == CHOOSE k \in Failing(compiled) : \A j \in Failing(compiled) : k <= j

NoClause == [type |-> "none", text |-> "", error |-> NoError, compiled |-> <<>>]

\* a variant that tests the filter without trimming it
EmptyWhere_Untrimmed(where) == where = ""

\* if (!where || !where.trim())
EmptyWhere(where) == where = "" \/ trim(where) = ""

EmptyWhereClause ==
    [type |-> "err", text |-> "", error |-> McpError(<<"Empty where clause">>),
     compiled |-> <<>>]

\* the join of the compiled conditions, or the error of the first condition
\* that has no recognised shape
ClauseOf(compiled) ==
    IF Failing(compiled) = {}
    THEN [type |-> "ok", text |-> Join(Texts(compiled), " and "), error |-> NoError,
          compiled |-> compiled]
    ELSE [type |-> "err", text |-> "",
          error |-> McpError(<<"Invalid condition format:",
                               compiled[FirstFailing(compiled)].text>>),
          compiled |-> SubSeq(compiled, 1, FirstFailing(compiled))]

\* the map and the join, after the split
CompileConditions(conditions) == ClauseOf(CompileAll(conditions))

\* the whole function
validateWhereClause(where) ==
    IF EmptyWhere(where) THEN EmptyWhereClause
    ELSE CompileConditions(ScanEnd(Scan(ScanStart(where))))

(***************************************************************************)
(* One validateWhereClause call, step by step.                             *)
(***************************************************************************)
\* the conditions the model's filters are made of
WhereSegments ==
    {"", "   ", "bogus",
     "Status is null", "Age gt 5", "Name is not null", "Owner IS  NULL",
     "Name eq 'this is null'", "Status is null please", "Name eq 'rock and roll'",
     "Name eq \"salt AND pepper\"", "Name eq 'a\\' and b'", "Name eq 'open",
     "Android eq 'y'", "Os eq android", "Name contains O'Neil",
     "Tags NOT  contains 'x'", "Id GTE 10", "Done eq true", "Owner ne null",
     "(A eq 'x' or A eq 'y')",
     "My Field is null", "CustomField.My Field is null", "CustomField.Risk eq 'High'"}

\* the conditions that follow a separator
TailSegments == {"B eq 'z'", "Android eq 'y'", "Done is not null"}

Separators == {" and ", " AND "}

\* the filters of at most n conditions
RECURSIVE WheresOf(_)
WheresOf(n) ==
    IF n = 1 THEN WhereSegments
    ELSE WheresOf(n - 1)
         \cup {w \o sep \o t : w \in WheresOf(n - 1), sep \in Separators, t \in TailSegments}

WhereInputs == WheresOf(MaxConditions)

NoCompiler == [pc |-> "idle", scan |-> ScanStart(""), result |-> NoClause]

\* the call on entry
WhereStart(where) == [pc |-> "enter", scan |-> ScanStart(where), result |-> NoClause]

\* the test for an empty filter
WhereEnter ==
    /\ compiler.pc = "enter"
    /\ compiler' = IF EmptyWhere(compiler.scan.where)
                   THEN [compiler EXCEPT !.pc = "thrown", !.result = EmptyWhereClause]
                   ELSE [compiler EXCEPT !.pc = "scan"]
    /\ UNCHANGED <<helper, retry, cacheVars, request>>

\* one iteration of the splitting loop
WhereScan ==
    /\ compiler.pc = "scan"
    /\ ~ScanDone(compiler.scan)
    /\ compiler' = [compiler EXCEPT !.scan = ScanStep(compiler.scan)]
    /\ UNCHANGED <<helper, retry, cacheVars, request>>

\* the end of the loop: the last condition is pushed, the conditions are
\* compiled and joined
WhereCompile ==
    /\ compiler.pc = "scan"
    /\ ScanDone(compiler.scan)
    /\ LET conditions == ScanEnd(compiler.scan)
           result == CompileConditions(conditions)
       IN  compiler' = [compiler EXCEPT
                           !.pc = IF result.type = "ok" THEN "returned" ELSE "thrown",
                           !.scan.conditions = conditions,
                           !.result = result]
    /\ UNCHANGED <<helper, retry, cacheVars, request>>

(***************************************************************************)
(* validateInclude.                                                        *)
(***************************************************************************)
\* a variant that accepts every name that is not empty
IsIncludeName_NonEmpty(inc) == inc # ""

\* /^[A-Za-z.]+$/
IsIncludeName(inc) ==
    /\ inc # ""
    /\ \A k \in 1..Len(inc) :
           HasChar(UpperCaseLetters \o LowerCaseLetters \o ".", CharAt(inc, k))

\* filter(Boolean).map(trim).map(formatWhereField)
RECURSIVE validIncludes(_)
validIncludes(include) ==
    IF include = <<>> THEN <<>>
    ELSE (IF Head(include) = "" THEN <<>>
          ELSE <<formatWhereField(trim(Head(include)))>>)
         \o validIncludes(Tail(include))

validateInclude(include) ==
    LET names == validIncludes(include)
        bad == {k \in 1..Len(names) : ~IsIncludeName(names[k])}
    IN  IF bad = {}
        THEN [type |-> "ok", text |-> "[" \o Join(names, ",") \o "]", error |-> NoError]
        ELSE [type |-> "err", text |-> "",
              error |-> McpError(<<"Invalid include parameter:",
                                   names[CHOOSE k \in bad : \A j \in bad : k <= j]>>)]

(***************************************************************************)
(* formatOrderBy.                                                          *)
(***************************************************************************)
\* an entry of the orderBy list: a string, or an object {field, direction}
OrderByString(text) == [kind |-> "string", text |-> text, field |-> "", direction |-> ""]

OrderByObject(field, direction) ==
    [kind |-> "object", text |-> "", field |-> field, direction |-> direction]

\* the callback of orderBy.map: a string is handed whole to formatWhereField
formatOrderByItem(item) ==
    IF item.kind = "string" THEN formatWhereField(item.text)
    ELSE formatWhereField(item.field) \o " " \o item.direction

formatOrderBy(orderBy) ==
    Join([k \in 1..Len(orderBy) |-> formatOrderByItem(orderBy[k])], ",")

(***************************************************************************)
(* One call of formatWhereValue, validateInclude, formatOrderBy or         *)
(* handleApiResponse.                                                      *)
(***************************************************************************)
\* the characters the values are made of
ValueChars == {"a", "'", "\"", " "}

\* the strings of at most n characters
RECURSIVE StringsOf(_)
StringsOf(n) ==
    IF n = 0 THEN {""}
    ELSE StringsOf(n - 1) \cup {s \o ch : s \in StringsOf(n - 1), ch \in ValueChars}

FormatValues == StringsOf(MaxValueLen)

\* the lists of at most n entries of the set
RECURSIVE ListsOf(_, _)
ListsOf(entries, n) ==
    IF n = 0 THEN {<<>>}
    ELSE ListsOf(entries, n - 1)
         \cup {Append(list, e) : list \in ListsOf(entries, n - 1), e \in entries}

IncludeEntries ==
    {"Project", "Team.Lead", " Team ", "Bad Name!", "Tasks[Id]", "", "  ",
     "CustomField.Risk", "Assigned User"}

IncludeInputs == ListsOf(IncludeEntries, MaxEntries)

OrderByEntries ==
    {OrderByString("CreateDate desc"), OrderByString("EndDate desc"), OrderByString("Name"),
     OrderByObject("CreateDate", "desc"), OrderByObject("Name", "asc"),
     OrderByObject("Assigned User", "desc"), OrderByObject("CustomField.Risk", "asc")}

OrderByInputs == ListsOf(OrderByEntries, MaxEntries)

\* the responses handleApiResponse is called with: every error response, a
\* well-formed 200 and a 200 whose body is not JSON
HandledResponses ==
    ErrorResponses
    \cup {[type |-> "response", status |-> 200, text |-> t, data |-> NoData] :
             t \in {<<"{", "}">>, <<"junk">>}}

NoResponse == [type |-> "response", status |-> 0, text |-> <<>>, data |-> NoData]

NoHelper ==
    [fn |-> "none", value |-> "", include |-> <<>>, orderBy |-> <<>>,
     response |-> NoResponse, pc |-> "idle",
     output |-> "", error |-> NoError, again |-> ""]

HelperCalls ==
    {[NoHelper EXCEPT !.fn = "formatWhereValue", !.value = value, !.pc = "call"] :
        value \in FormatValues}
    \cup {[NoHelper EXCEPT !.fn = "validateInclude", !.include = include, !.pc = "call"] :
             include \in IncludeInputs}
    \cup {[NoHelper EXCEPT !.fn = "formatOrderBy", !.orderBy = orderBy, !.pc = "call"] :
             orderBy \in OrderByInputs}
    \cup {[NoHelper EXCEPT !.fn = "handleApiResponse", !.response = response,
                            !.pc = "call"] :
             response \in HandledResponses}

\* formatWhereValue on a string
FormatValue ==
    /\ helper.pc = "call" /\ helper.fn = "formatWhereValue"
    /\ helper' = [helper EXCEPT !.pc = "returned",
                                      !.output = formatWhereValue(helper.value)]
    /\ UNCHANGED <<retry, cacheVars, compiler, request>>

\* formatWhereValue on the literal it returned
FormatValueAgain ==
    /\ helper.pc = "returned" /\ helper.fn = "formatWhereValue"
    /\ helper' = [helper EXCEPT !.pc = "requoted",
                                      !.again = formatWhereValue(helper.output)]
    /\ UNCHANGED <<retry, cacheVars, compiler, request>>

\* the call ends with what the function returned or threw
Ended(f, result) ==
    [f EXCEPT !.pc = IF result.type = "ok" THEN "returned" ELSE "thrown",
              !.output = result.text,
              !.error = result.error]

FormatInclude ==
    /\ helper.pc = "call" /\ helper.fn = "validateInclude"
    /\ helper' = Ended(helper, validateInclude(helper.include))
    /\ UNCHANGED <<retry, cacheVars, compiler, request>>

FormatOrderBy ==
    /\ helper.pc = "call" /\ helper.fn = "formatOrderBy"
    /\ helper' = [helper EXCEPT !.pc = "returned",
                                      !.output = formatOrderBy(helper.orderBy)]
    /\ UNCHANGED <<retry, cacheVars, compiler, request>>

\* the call ends with the body handleApiResponse returned or the error it
\* threw
Handled(f, out) ==
    [f EXCEPT !.pc = IF out.type = "ok" THEN "returned" ELSE "thrown",
              !.error = IF out.type = "ok" THEN NoError ELSE out.error]

\* handleApiResponse on the response of an entity operation
HandleResponse ==
    /\ helper.pc = "call" /\ helper.fn = "handleApiResponse"
    /\ helper' = Handled(helper, handleApiResponse(helper.response, ContextOf("entity"),
                                                   FALSE))
    /\ UNCHANGED <<retry, cacheVars, compiler, request>>

(***************************************************************************)
(* The public operations: searchEntities, getEntity, createEntity,         *)
(* updateEntity and createComment.                                         *)
(***************************************************************************)
Operations == {"search", "get", "create", "update", "comment"}

\* the id getEntity and updateEntity are called with
EntityId == "42"

\* the context the operation hands to executeWithRetry and handleApiResponse
OperationContext(op, type) ==
    CASE op = "search" -> "search " \o type \o "s"
      [] op = "get" -> "get " \o type \o " " \o EntityId
      [] op = "create" -> "create " \o type
      [] op = "update" -> "update " \o type \o " " \o EntityId
      [] OTHER -> "create Comment"

FailurePrefix(op, type) ==
    CASE op = "search" -> "Failed to search " \o type \o "s:"
      [] op = "get" -> "Failed to get " \o type \o " " \o EntityId \o ":"
      [] op = "create" -> "Failed to create " \o type \o ":"
      [] op = "update" -> "Failed to update " \o type \o " " \o EntityId \o ":"
      [] OTHER -> "Failed to create comment:"

\* a variant that wraps every error it catches
FacadeCatch_WrapAll(op, type, error) ==
    McpError(<<FailurePrefix(op, type)>> \o error.message)

\* a variant that throws a plain Error with the message it caught
FacadeCatch_Plain(op, type, error) == RawError(error.message)

\* the catch block of a public operation: an McpError is rethrown as it is,
\* anything else is wrapped in one
FacadeCatch(op, type, error) ==
    IF error.kind = "McpError" THEN error
    ELSE McpError(<<FailurePrefix(op, type)>> \o error.message)

\* the arguments of a call: where is "" and include is <<>> when the caller
\* leaves them out (both are skipped by `if (where)`, `if (include?.length)`)
RequestWheres == {"", "Name eq 'x'", "bogus"}
RequestIncludes == {<<>>, <<"Project", " Team ">>, <<"Project", "Tasks[Id]">>}

RequestInputs ==
    {[op |-> "search", where |-> w, include |-> i] :
        w \in RequestWheres, i \in RequestIncludes}
    \cup {[op |-> "get", where |-> "", include |-> i] : i \in RequestIncludes}
    \cup {[op |-> o, where |-> "", include |-> <<>>] : o \in {"create", "update", "comment"}}

NoRequest ==
    [op |-> "", where |-> "", include |-> <<>>, pc |-> "idle", stage |-> "",
     params |-> <<>>, sent |-> <<>>, error |-> NoError]

NewRequest(input) ==
    [NoRequest EXCEPT !.op = input.op, !.where = input.where,
                      !.include = input.include, !.pc = "start"]

\* an executeWithRetry call that has not been entered
IdleRetry == [RetryStart(DefaultRetryConfig, "entity", "") EXCEPT !.pc = "idle"]

\* the validateEntityType call of the operation is call 1; createComment
\* validates no type
ValidatesType(r) == r.op # "comment"

\* the operation awaits validateEntityType first of all
RequestValidate ==
    /\ request.pc = "start"
    /\ ValidatesType(request)
    /\ \/ ValidateCached(1)
       \/ ValidateJoin(1)
       \/ ValidateStart(1)

\* the parameters built before executeWithRetry is entered
BaseParams(r) ==
    CASE r.op = "search" ->
             <<"format", "take">>
             \o (IF r.where # "" THEN <<"where">> ELSE <<>>)
             \o (IF r.include # <<>> THEN <<"include">> ELSE <<>>)
      [] r.op = "get" ->
             <<"format">> \o (IF r.include # <<>> THEN <<"include">> ELSE <<>>)
      [] OTHER -> <<>>

NoFailure == [stage |-> "", error |-> NoError]

Failure(stage, result, otherwise) ==
    IF result.type = "err" THEN [stage |-> stage, error |-> result.error] ELSE otherwise

\* params.append('include', this.validateInclude(include)) of searchEntities
\* and getEntity
IncludeFailure(r) ==
    IF r.op \in {"search", "get"} /\ r.include # <<>>
    THEN Failure("include", validateInclude(r.include), NoFailure)
    ELSE NoFailure

\* the clauses the operation compiles, in the order of the code: the where
\* clause (searchEntities), then the include list
ClauseFailure(r) ==
    IF r.op = "search" /\ r.where # ""
    THEN Failure("where", validateWhereClause(r.where), IncludeFailure(r))
    ELSE IncludeFailure(r)

\* a variant that looks at the clauses before the type validation
Proceed_ClauseFirst(r, call, failure) ==
    IF failure.stage # ""
    THEN [r EXCEPT !.pc = "thrown", !.stage = failure.stage,
                   !.error = FacadeCatch(r.op, call.type, failure.error)]
    ELSE IF ValidatesType(r) /\ call.pc = "thrown"
    THEN [r EXCEPT !.pc = "thrown", !.stage = "type",
                   !.error = FacadeCatch(r.op, call.type, call.error)]
    ELSE [r EXCEPT !.pc = "executing", !.stage = "execute", !.params = BaseParams(r)]

\* the operation after validateEntityType: a failed validation or a failed
\* clause reaches the catch block; otherwise executeWithRetry is entered
Proceed(r, call, failure) ==
    IF ValidatesType(r) /\ call.pc = "thrown"
    THEN [r EXCEPT !.pc = "thrown", !.stage = "type",
                   !.error = FacadeCatch(r.op, call.type, call.error)]
    ELSE IF failure.stage # ""
    THEN [r EXCEPT !.pc = "thrown", !.stage = failure.stage,
                   !.error = FacadeCatch(r.op, call.type, failure.error)]
    ELSE [r EXCEPT !.pc = "executing", !.stage = "execute", !.params = BaseParams(r)]

\* the operation resumes after validateEntityType
RequestProceed ==
    /\ microtasks = <<>>
    /\ request.pc = "start"
    /\ ValidatesType(request) => calls[1].pc \in {"returned", "thrown"}
    /\ request' = Proceed(request, calls[1], ClauseFailure(request))
    /\ retry' = IF request'.pc = "executing"
                THEN RetryStart(DefaultRetryConfig, "entity",
                                OperationContext(request.op, calls[1].type))
                ELSE retry
    /\ UNCHANGED <<helper, cacheVars, compiler>>

\* what the entity endpoint answers to an attempt of the operation
EntityAnswers ==
    {[type |-> "reject", error |-> RawError(<<"ECONNRESET">>)],
     [type |-> "response", status |-> 500, text |-> <<"junk">>, data |-> NoData],
     [type |-> "response", status |-> 200, text |-> <<"{", "}">>,
      data |-> [items |-> "list", names |-> <<>>]]}

\* the parameters of the request of one attempt: searchEntities and
\* getEntity append the token to the parameters built outside the closure,
\* the other operations build new parameters in the closure
AttemptParams(r) ==
    IF r.op \in {"search", "get"} THEN Append(r.params, "access_token")
    ELSE <<"access_token">>

\* one attempt of the operation's closure
RequestAttempt ==
    /\ request.pc = "executing"
    /\ retry.pc = "call"
    /\ \E fetched \in EntityAnswers : retry' = OnAttempt(retry, fetched, FALSE)
    /\ request' = [request EXCEPT !.params = AttemptParams(request),
                                  !.sent = Append(@, AttemptParams(request))]
    /\ UNCHANGED <<helper, cacheVars, compiler>>

\* executeWithRetry has ended: the operation returns its result or its catch
\* block throws
RequestSettle ==
    /\ request.pc = "executing"
    /\ Finished(retry)
    /\ request' = IF retry.pc = "returned" THEN [request EXCEPT !.pc = "returned"]
                  ELSE [request EXCEPT
                           !.pc = "thrown",
                           !.error = FacadeCatch(request.op, calls[1].type,
                                                 retry.result.error)]
    /\ UNCHANGED <<helper, retry, cacheVars, compiler>>

(***************************************************************************)
(* Specifications.                                                         *)
(***************************************************************************)
CacheInit ==
    /\ validEntityTypesCache = NULL
    /\ cacheInitPromise = 0
    /\ cacheTimestamp = 0
    /\ now = StartTime
    /\ promises = <<>>
    /\ calls = [c \in Calls |-> IdleCall]
    /\ initTask = [pc |-> "idle", promise |-> 0]
    /\ microtasks = <<>>
    /\ lastRefresh = [at |-> 0, fallback |-> FALSE]

\* the capability cache of a service with the default retryConfig
Init ==
    /\ retry = RetryStart(DefaultRetryConfig, "metadata", "fetch metadata")
    /\ CacheInit
    /\ compiler = NoCompiler
    /\ request = NoRequest
    /\ helper = NoHelper

Next ==
    \/ \E c \in Calls : ValidateCached(c)
    \/ \E c \in Calls : ValidateJoin(c)
    \/ \E c \in Calls : ValidateStart(c)
    \/ initializeCache
    \/ \E p \in 1..MaxPromises : Settle(p)
    \/ \E c \in Calls : ResumeStarter(c)
    \/ \E c \in Calls : ResumeWaiter(c)
    \/ ResumeInit
    \/ ClockStep
    \/ ClockJump

Spec == Init /\ [][Next]_vars

\* one executeWithRetry call under every retryConfig of the bounds
InitRetry ==
    /\ RetryInit /\ CacheInit
    /\ compiler = NoCompiler /\ request = NoRequest /\ helper = NoHelper

NextRetry == Attempt \/ Wake

SpecRetry == InitRetry /\ [][NextRetry]_vars

\* the same call when every invocation of the operation answers and every
\* timer of setTimeout fires
SpecRetryFair == SpecRetry /\ WF_vars(Attempt) /\ WF_vars(Wake)

\* one validateWhereClause call on every filter of the bounds
InitWhere ==
    /\ compiler \in {WhereStart(where) : where \in WhereInputs}
    /\ retry = IdleRetry
    /\ CacheInit
    /\ request = NoRequest
    /\ helper = NoHelper

NextWhere == WhereEnter \/ WhereScan \/ WhereCompile

SpecWhere == InitWhere /\ [][NextWhere]_vars

\* one call of a public operation of a service that may have primed its
\* cache, with the default retryConfig
InitFacade ==
    /\ request \in {NewRequest(input) : input \in RequestInputs}
    /\ retry = IdleRetry
    /\ CacheInit
    /\ compiler = NoCompiler
    /\ helper = NoHelper

NextFacade ==
    \/ initializeCache
    \/ \E p \in 1..MaxPromises : Settle(p)
    \/ ResumeInit
    \/ ClockJump
    \/ RequestValidate
    \/ ResumeStarter(1)
    \/ ResumeWaiter(1)
    \/ RequestProceed
    \/ RequestAttempt
    \/ Wake
    \/ RequestSettle

SpecFacade == InitFacade /\ [][NextFacade]_vars

\* one call of a helper on every input of the bounds
InitHelpers ==
    /\ helper \in HelperCalls
    /\ retry = IdleRetry
    /\ CacheInit
    /\ compiler = NoCompiler
    /\ request = NoRequest

NextHelpers ==
    FormatValue \/ FormatValueAgain \/ FormatInclude \/ FormatOrderBy \/ HandleResponse

SpecHelpers == InitHelpers /\ [][NextHelpers]_vars

(***************************************************************************)
(* Properties of executeWithRetry and fetchMetadata (SpecRetry).           *)
(***************************************************************************)
MentionsTerminalStatus(message) ==
    \/ Includes(message, <<"status:", "400">>)
    \/ Includes(message, <<"status:", "401">>)

\* C1: an operation whose invocation is answered with HTTP 400 or HTTP 401
\* is invoked exactly once: executeWithRetry rethrows the error of that
\* answer at once, without a delay and without another attempt.
C1_TerminalStatusInvokedOnce ==
    (Finished(retry) /\ retry.statuses[1] \in {400, 401})
        => /\ retry.pc = "thrown"
           /\ retry.invocations = 1
           /\ retry.delays = <<>>

\* C2: when every attempt fails and none of the failures is an HTTP 400 or
\* 401, the operation has been invoked exactly maxRetries times and the call
\* fails with the RetriesExhausted error that names the context and carries
\* the message of the last error.
C2_RetryableFailureExhausts ==
    (/\ retry.pc = "thrown"
     /\ \A i \in 1..Len(retry.statuses) : retry.statuses[i] \notin {400, 401})
        => /\ retry.invocations = retry.maxRetries
           /\ retry.result =
                  [type |-> "err",
                   error |-> RetriesExhausted(retry.context, retry.maxRetries,
                                              retry.lastError)]

\* C10 as stated: a metadata body that cannot be parsed after the repair
\* ends the fetchMetadata call at once: one request, one repair, and the
\* parse error is what the call throws.
C10_ParseErrorNotRetried ==
    (retry.op = "metadata" /\ retry.kinds # <<>> /\ retry.kinds[1] = "parse")
        => /\ retry.pc = "thrown"
           /\ retry.invocations = 1
           /\ retry.repairs = 1
           /\ retry.result = [type |-> "err", error |-> retry.lastError]

\* C10 as amended: the parse failure is raised inside the retried closure and
\* is retried like any other failure.  When every attempt of a fetchMetadata
\* call ends in a parse failure whose message does not contain 'status: 400'
\* or 'status: 401', the endpoint has been requested maxRetries times, the
\* repair has been attempted once per attempt, and the call fails with the
\* RetriesExhausted error that carries the parse error.
C10_ParseErrorRetried ==
    (/\ retry.op = "metadata"
     /\ retry.pc = "thrown"
     /\ \A i \in 1..Len(retry.kinds) : retry.kinds[i] = "parse"
     /\ ~MentionsTerminalStatus(retry.lastError.message))
        => /\ retry.invocations = retry.maxRetries
           /\ retry.repairs = retry.maxRetries
           /\ Len(retry.delays) = retry.maxRetries - 1
           /\ Includes(retry.lastError.message, <<"Failed to parse metadata response:">>)
           /\ retry.result =
                  [type |-> "err",
                   error |-> RetriesExhausted("fetch metadata", retry.maxRetries,
                                              retry.lastError)]

\* a fetchMetadata call of three attempts, all ending in a parse failure
C10_Witness ==
    /\ retry.op = "metadata"
    /\ retry.pc = "thrown"
    /\ retry.maxRetries = DefaultMaxRetries
    /\ retry.kinds = <<"parse", "parse", "parse">>
    /\ retry.repairs = 3

(***************************************************************************)
(* Properties of the capability cache (Spec).                              *)
(***************************************************************************)
Done(c) == calls[c].pc \in {"returned", "thrown"}
IssuedNow(c) == calls[c].pc = "idle" /\ calls'[c].pc # "idle"
Pending == {p \in 1..Len(promises) : promises[p].state = "pending"}
NoRefreshCompleted == \A p \in 1..Len(promises) : promises[p].state = "pending"

IsInvalidEntityType(error) ==
    /\ error.kind = "McpError"
    /\ Len(error.message) >= 1
    /\ error.message[1] = "Invalid entity type:"

\* what a validation that recovers from a failed discovery must do: succeed
\* for a type of the static list, fail with InvalidEntityType for another
RecoversLocally(c) ==
    /\ Contains(staticValidEntityTypes, calls[c].type) => calls[c].pc = "returned"
    /\ calls[c].pc = "thrown" =>
           /\ IsInvalidEntityType(calls[c].error)
           /\ ~Contains(staticValidEntityTypes, calls[c].type)

\* C3: while no list is cached and no refresh has completed, the calls that
\* have been issued, however many, have caused exactly one discovery call:
\* they all await the same promise, and only the first call can have
\* started it.
C3_SingleFlightOnColdCache ==
    (NoRefreshCompleted /\ \E c \in Calls : Issued(c))
        => /\ Len(promises) = 1
           /\ ~validEntityTypesCache.present
           /\ \A c \in Calls :
                  Issued(c) => /\ calls[c].pc = "awaiting"
                               /\ calls[c].promise = 1
                               /\ calls[c].starter <=>
                                      (c = 1 /\ promises[1].startedBy = "validate")

\* two calls await the one discovery call the first of them started
C3_Witness ==
    /\ NoRefreshCompleted
    /\ Len(promises) = 1
    /\ calls[1].pc = "awaiting" /\ calls[1].starter
    /\ calls[2].pc = "awaiting" /\ ~calls[2].starter

\* C4: when the discovery call a validation started fails, every call that
\* awaited it, the one that started it included, succeeds for a type of the
\* static list and otherwise fails with InvalidEntityType only.
C4_DiscoveryFailureNotSurfaced ==
    \A c \in Calls :
        (/\ Done(c)
         /\ calls[c].promise # 0
         /\ promises[calls[c].promise].state = "rejected"
         /\ promises[calls[c].promise].startedBy = "validate")
            => RecoversLocally(c)

\* C5: after initializeEntityTypeCache has failed, a validateEntityType call
\* issued later succeeds for a type of the static list and never fails with
\* the error of the priming.
C5_PrimingFailureNotFatal ==
    \A c \in Calls :
        (initTask.pc = "failed" /\ calls[c].afterPriming /\ Done(c))
            => RecoversLocally(c)

\* C6: a refresh that ends in a fallback list sets the cache timestamp, and
\* a call issued within cacheExpiryMs of the end of such a refresh starts no
\* discovery call.
C6_FallbackRefreshCounts ==
    [][/\ \A c \in Calls :
              (/\ calls[c].pc = "awaiting" /\ calls[c].starter /\ Done(c)'
               /\ IsFallback(validEntityTypesCache'.list))
                  => cacheTimestamp' = now
       /\ \A c \in Calls :
              (/\ IssuedNow(c)
               /\ lastRefresh.at # 0 /\ lastRefresh.fallback
               /\ now - lastRefresh.at <= cacheExpiryMs)
                  => Len(promises') = Len(promises)]_vars

\* C7: a call issued when the cached list is older than cacheExpiryMs starts
\* exactly one discovery call if none is in flight, and otherwise awaits the
\* one in flight, which a validation started; at most one discovery call is
\* in flight at any time.
C7_ExpiredCacheRefreshedOnce ==
    /\ [](Cardinality(Pending) <= 1)
    /\ [][\A c \in Calls :
              (/\ IssuedNow(c)
               /\ validEntityTypesCache.present
               /\ now - cacheTimestamp > cacheExpiryMs)
                  => IF Pending = {}
                     THEN /\ Len(promises') = Len(promises) + 1
                          /\ cacheInitPromise' = Len(promises')
                          /\ promises'[cacheInitPromise'].state = "pending"
                          /\ calls'[c].pc = "awaiting" /\ calls'[c].starter
                          /\ calls'[c].promise = cacheInitPromise'
                     ELSE /\ promises' = [promises EXCEPT
                                             ![cacheInitPromise].awaiters = Append(@, c)]
                          /\ cacheInitPromise \in Pending
                          /\ promises[cacheInitPromise].startedBy = "validate"
                          /\ cacheInitPromise' = cacheInitPromise
                          /\ calls'[c].pc = "awaiting" /\ ~calls'[c].starter
                          /\ calls'[c].promise = cacheInitPromise]_vars

\* the cached list has expired; one call refreshes it, a second call awaits
\* the same refresh
C7_Witness ==
    /\ validEntityTypesCache.present
    /\ now - cacheTimestamp > cacheExpiryMs
    /\ cacheTimestamp > 0
    /\ Cardinality(Pending) = 1
    /\ \E c, d \in Calls :
           /\ calls[c].pc = "awaiting" /\ calls[c].starter
           /\ calls[d].pc = "awaiting" /\ ~calls[d].starter
           /\ calls[c].promise = calls[d].promise
           /\ calls[c].promise \in Pending

\* C8: a call that has checked a list returned the requested type if the
\* list contains it, and otherwise failed with the InvalidEntityType error
\* that names the type and enumerates that list; the list it checked is the
\* cached list at the time of the check.
C8_ValidationOutcome ==
    /\ [](\A c \in Calls :
              (Done(c) /\ calls[c].checked.present)
                  => IF Contains(calls[c].checked.list, calls[c].type)
                     THEN calls[c].pc = "returned" /\ calls[c].result = calls[c].type
                     ELSE /\ calls[c].pc = "thrown"
                          /\ calls[c].error =
                                 McpError(<<"Invalid entity type:", calls[c].type,
                                            "Valid entity types are:">>
                                          \o calls[c].checked.list))
    /\ [][\A c \in Calls :
              (~Done(c) /\ Done(c)' /\ calls'[c].checked.present)
                  => calls'[c].checked = validEntityTypesCache']_vars

\* a call for a type the remote does not declare has failed against a list
\* discovered from the remote
C8_Witness ==
    \E c \in Calls :
        /\ calls[c].pc = "thrown"
        /\ calls[c].type = "Milestone"
        /\ calls[c].checked = Cached(<<"Bug", "Widget">>)

\* C9 as stated: a call for "UserStory" that has checked a list has
\* succeeded.
C9_UserStoryAlwaysValid ==
    \A c \in Calls :
        (Done(c) /\ calls[c].type = "UserStory" /\ calls[c].checked.present)
            => calls[c].pc = "returned"

\* C9 as amended: a call for "UserStory" succeeds when the list it checks is
\* one of the lists bundled with the service, or a discovered list in which
\* the remote declares UserStory.
C9_UserStoryValidWhenDeclared ==
    \A c \in Calls :
        (/\ Done(c) /\ calls[c].type = "UserStory" /\ calls[c].checked.present
         /\ \/ IsFallback(calls[c].checked.list)
            \/ Contains(calls[c].checked.list, "UserStory"))
            => calls[c].pc = "returned" /\ calls[c].result = "UserStory"

\* one call for "UserStory" has succeeded against the static list after a
\* failed discovery, another against a discovered list
C9_Witness ==
    \E c, d \in Calls :
        /\ calls[c].pc = "returned" /\ calls[c].type = "UserStory"
        /\ calls[c].checked = Cached(staticValidEntityTypes)
        /\ promises[calls[c].promise].state = "rejected"
        /\ calls[d].pc = "returned" /\ calls[d].type = "UserStory"
        /\ calls[d].checked = Cached(<<"UserStory", "Widget">>)

(***************************************************************************)
(* Properties of the public operations (SpecFacade).                       *)
(***************************************************************************)
\* the error a validation of the operation raised, where it was raised
RaisedByValidation ==
    CASE request.stage = "type" -> calls[1].error
      [] request.stage = "where" -> validateWhereClause(request.where).error
      [] request.stage = "include" -> validateInclude(request.include).error
      [] OTHER -> NoError

IsValidationError(error) ==
    /\ error.kind = "McpError"
    /\ Len(error.message) >= 1
    /\ error.message[1] \in {"Empty where clause", "Invalid condition format:",
                             "Invalid include parameter:"}

\* C11: when searchEntities, getEntity, createEntity or updateEntity fails
\* with the InvalidEntityType of its type validation or with the
\* ValidationError of its where clause or include list, executeWithRetry has
\* not been entered, no request has been sent to the entity endpoint, and
\* the caller gets the very error that was raised.
C11_ValidationErrorsNotRetried ==
    (/\ request.pc = "thrown"
     /\ \/ request.stage = "type" /\ IsInvalidEntityType(calls[1].error)
        \/ request.stage \in {"where", "include"})
        => /\ retry = IdleRetry
           /\ request.sent = <<>>
           /\ request.error = RaisedByValidation
           /\ IsInvalidEntityType(request.error) \/ IsValidationError(request.error)

\* a search whose type is valid has failed on its where clause
C11_Witness ==
    /\ request.op = "search"
    /\ request.pc = "thrown" /\ request.stage = "where"
    /\ calls[1].pc = "returned"
    /\ request.error = McpError(<<"Invalid condition format:", "bogus">>)

\* C12: a searchEntities or getEntity call with an include name that does
\* not match the identifier pattern causes no network call at all, whatever
\* the state of the cache: its type validation starts no discovery call, no
\* request is sent to the entity endpoint, and the call does not succeed.
C12_InvalidIncludeRejectedBeforeNetwork ==
    (/\ request.op \in {"search", "get"}
     /\ request.include # <<>>
     /\ validateInclude(request.include).type = "err")
        => /\ ~calls[1].starter
           /\ request.sent = <<>>
           /\ request.pc \notin {"executing", "returned"}

\* C14: every error that leaves a public operation is an McpError: the error
\* of the operation, of the type validation it awaits, of executeWithRetry
\* and of the getValidEntityTypes / fetchMetadata promise; and
\* initializeEntityTypeCache ends without raising, a failed discovery
\* included.
C14_FailuresAreMcpErrors ==
    /\ request.pc = "thrown" => request.error.kind = "McpError"
    /\ retry.pc = "thrown" => retry.result.error.kind = "McpError"
    /\ \A c \in Calls : calls[c].pc = "thrown" => calls[c].error.kind = "McpError"
    /\ \A p \in 1..Len(promises) :
           promises[p].state = "rejected" => promises[p].error.kind = "McpError"
    /\ initTask.pc \in {"idle", "awaiting", "done", "failed"}
    /\ initTask.pc = "failed" => promises[initTask.promise].state = "rejected"

\* fetch() has rejected on every attempt of an operation: the caller gets
\* the McpError of executeWithRetry
C14_Witness ==
    /\ request.pc = "thrown" /\ request.stage = "execute"
    /\ retry.kinds = <<"reject", "reject", "reject">>
    /\ request.error.kind = "McpError"
    /\ Includes(request.error.message, <<"attempts:", "ECONNRESET">>)

(***************************************************************************)
(* Properties of the capability cache, continued (Spec).                   *)
(***************************************************************************)
\* C13: getValidEntityTypes never fails: its promise is never rejected.
C13_RefreshNeverFails ==
    \A p \in 1..Len(promises) : promises[p].state # "rejected"

(***************************************************************************)
(* Properties of validateWhereClause (SpecWhere).                          *)
(***************************************************************************)
\* String.prototype.includes on strings
StrContains(s, sub) == \E k \in 1..(Len(s) - Len(sub) + 1) : Slice(s, k, k + Len(sub) - 1) = sub

NoSpan == [in |-> FALSE, ch |-> ""]

\* an unescaped quote opens a quoted span; the next unescaped quote of the
\* same kind closes it
QuoteStep(text, k, before) ==
    IF IsQuoteChar(CharAt(text, k)) /\ CharAt(text, k - 1) # "\\"
    THEN IF ~before.in THEN [in |-> TRUE, ch |-> CharAt(text, k)]
         ELSE IF CharAt(text, k) = before.ch THEN NoSpan
         ELSE before
    ELSE before

LastOf(trace) == IF trace = <<>> THEN NoSpan ELSE trace[Len(trace)]

\* for each of the first k characters of the text, whether a quoted span is
\* open after it
RECURSIVE QuoteTrace(_, _)
QuoteTrace(text, k) ==
    IF k <= 0 THEN <<>>
    ELSE LET trace == QuoteTrace(text, k - 1)
         IN  Append(trace, QuoteStep(text, k, LastOf(trace)))

OpenAfter(trace, k) == k >= 1 /\ k <= Len(trace) /\ trace[k].in

\* character k lies inside a quoted span: the span is open before and after it
InsideQuotedSpan(trace, k) == OpenAfter(trace, k - 1) /\ OpenAfter(trace, k)

\* the quoted spans of the text that are closed, as <<opening, closing>>
QuotedSpans(trace) ==
    {span \in (1..Len(trace)) \X (1..Len(trace)) :
        /\ span[1] < span[2]
        /\ ~OpenAfter(trace, span[1] - 1)
        /\ \A k \in span[1]..(span[2] - 1) : OpenAfter(trace, k)
        /\ ~OpenAfter(trace, span[2])}

Scanned == compiler.pc \in {"returned", "thrown"} /\ compiler.result # EmptyWhereClause

\* C15: no separator is taken inside a quoted span: none of the four
\* characters of a separator the loop has taken lies inside a quoted span,
\* and once the filter is split every closed quoted span of the filter
\* lies, quotes included, in one condition.
C15_QuotedAndNotSeparator ==
    LET trace == QuoteTrace(compiler.scan.where, Len(compiler.scan.where))
    IN  /\ \A j \in 1..Len(compiler.scan.splits) :
               \A d \in 1..4 : ~InsideQuotedSpan(trace, compiler.scan.splits[j] + d)
        /\ Scanned =>
               \A span \in QuotedSpans(trace) :
                   \E c \in 1..Len(compiler.scan.conditions) :
                       StrContains(compiler.scan.conditions[c],
                                   Slice(compiler.scan.where, span[1], span[2]))

\* a filter with "and" inside quotes, before a separator, has been split in
\* two conditions
C15_Witness ==
    /\ compiler.pc = "returned"
    /\ compiler.scan.where = "Name eq 'rock and roll' and B eq 'z'"
    /\ compiler.scan.conditions = <<"Name eq 'rock and roll'", "B eq 'z'">>

\* C16: a separator is taken only where "and" is a token delimited by
\* whitespace: the character before it is whitespace and the character after
\* it is whitespace or the end of the filter.
C16_AndIsWholeToken ==
    \A j \in 1..Len(compiler.scan.splits) :
        LET i == compiler.scan.splits[j]
        IN  /\ IsSpace(CharAt(compiler.scan.where, i + 1))
            /\ toLowerCase(Slice(compiler.scan.where, i + 2, i + 4)) = "and"
            /\ \/ i + 4 >= Len(compiler.scan.where)
               \/ IsSpace(CharAt(compiler.scan.where, i + 5))

Compiles(where, text) ==
    (compiler.scan.where = where /\ compiler.pc \in {"returned", "thrown"})
        => compiler.pc = "returned" /\ compiler.result.text = text

\* C17 as stated: "Status is null" compiles to "status is null" and
\* "Age gt 5" to "age gt '5'".
C17_ExamplesLowerCased ==
    /\ Compiles("Status is null", "status is null")
    /\ Compiles("Age gt 5", "age gt '5'")

\* C17 as amended: the field name keeps its case: "Status is null" compiles
\* to "Status is null" and "Age gt 5" to "Age gt '5'".
C17_ExamplesKeepCase ==
    /\ Compiles("Status is null", "Status is null")
    /\ Compiles("Age gt 5", "Age gt '5'")

\* "Age gt 5" has been compiled
C17_Witness ==
    /\ compiler.scan.where = "Age gt 5"
    /\ compiler.pc = "returned"
    /\ compiler.result.compiled[1].shape = "comparison"

OrGroup == "(A eq 'x' or A eq 'y')"

\* C18: a filter that starts with a parenthesised OR group compiles, and the
\* compiled clause starts with the group as the caller wrote it.
C18_OrGroupVerbatim ==
    (/\ startsWith(compiler.scan.where, OrGroup)
     /\ compiler.pc \in {"returned", "thrown"})
        => /\ compiler.pc = "returned"
           /\ startsWith(compiler.result.text, OrGroup)

\* the condition ends with the words of a null check, after a field
EndsWithWords(condition, words) ==
    LET runs == Runs(condition, 1)
        n == Len(runs)
    IN  /\ n > Len(words)
        /\ \A k \in 1..Len(words) :
               RunText(condition, runs[n - Len(words) + k]) = words[k]

\* C19: a condition is compiled as a null check exactly when it has the
\* shape <field> is null or <field> is not null; a null check is emitted as
\* the normalised field followed by " is null" / " is not null"; and
\* Name eq 'this is null' is compiled as a comparison.
C19_NullCheckOnlyByShape ==
    /\ \A k \in 1..Len(compiler.result.compiled) :
           LET c == compiler.result.compiled[k]
               condition == compiler.scan.conditions[k]
           IN  /\ c.shape = "is null" <=> EndsWithWords(condition, IsNull)
               /\ c.shape = "is not null" <=> EndsWithWords(condition, IsNotNull)
               /\ c.shape \in {"is null", "is not null"} =>
                      c.text = c.formattedField \o " " \o c.shape
    /\ Compiles("Name eq 'this is null'", "Name eq 'this is null'")

HasSpace(s) == \E k \in 1..Len(s) : IsSpace(CharAt(s, k))

\* C20: the field name of every compiled condition has lost all its
\* whitespace; a name that starts with "CustomField." is emitted as "cf_"
\* followed by the rest of the name, without whitespace.
C20_FieldNamesLoseAllWhitespace ==
    \A k \in 1..Len(compiler.result.compiled) :
        LET c == compiler.result.compiled[k]
        IN  c.ok =>
                /\ ~HasSpace(c.formattedField)
                /\ startsWith(c.field, CustomFieldPrefix) =>
                       c.formattedField =
                           "cf_" \o RemoveWhitespace(Slice(c.field, Len(CustomFieldPrefix) + 1,
                                                           Len(c.field)))

(***************************************************************************)
(* Properties of the filter compiler's failures and output (SpecWhere).    *)
(***************************************************************************)
\* the text has no character that is not whitespace
Blank(s) == \A k \in 1..Len(s) : IsSpace(CharAt(s, k))

\* C21: validateWhereClause fails with the ValidationError "Empty where
\* clause" on every filter that is empty or only whitespace, and produces
\* no compiled output: no condition is split off or compiled.
C21_BlankFilterFails ==
    (Blank(compiler.scan.where) /\ compiler.pc \notin {"idle", "enter"})
        => /\ compiler.pc = "thrown"
           /\ compiler.result.type = "err"
           /\ compiler.result.error = McpError(<<"Empty where clause">>)
           /\ compiler.result.text = ""
           /\ compiler.result.compiled = <<>>
           /\ compiler.scan = ScanStart(compiler.scan.where)

\* the call on a filter of three spaces has thrown
C21_Witness ==
    /\ compiler.scan.where = "   "
    /\ compiler.pc = "thrown"
    /\ compiler.result = EmptyWhereClause

\* the condition has the shape <field> is null or <field> is not null
IsNullCheck(condition) ==
    EndsWithWords(condition, IsNull) \/ EndsWithWords(condition, IsNotNull)

\* the conditions, by index, that are neither a null check nor a comparison
\* <field> <operator> <value> with one of the nine operators in any case
Unrecognised(conditions) ==
    {k \in 1..Len(conditions) :
        ~IsNullCheck(conditions[k]) /\ ~MatchCondition(conditions[k]).matched}

\* C22: when a condition of the filter is neither a null check nor a
\* comparison with one of the nine operators, the call fails with the
\* ValidationError "Invalid condition format:" that names the first such
\* condition, and returns no compiled filter.
C22_UnrecognisedSegmentFails ==
    (Scanned /\ Unrecognised(compiler.scan.conditions) # {})
        => LET bad == Unrecognised(compiler.scan.conditions)
               first == CHOOSE k \in bad : \A j \in bad : k <= j
           IN  /\ compiler.pc = "thrown"
               /\ compiler.result.text = ""
               /\ compiler.result.error =
                      McpError(<<"Invalid condition format:",
                                 compiler.scan.conditions[first]>>)

\* what a comparison is to be compiled to: the normalised field, the
\* operator in lower case and the trimmed value as a single-quoted literal
ComparisonText(match) ==
    formatWhereField(match.field) \o " " \o toLowerCase(match.operator) \o " "
        \o formatWhereValue(trim(match.value))

\* the text starts and ends with a single quote
SingleQuoted(text) ==
    Len(text) >= 2 /\ CharAt(text, 1) = "'" /\ CharAt(text, Len(text)) = "'"

\* C23: every condition of the shape <field> <operator> <value> is compiled
\* to the normalised field, the operator in lower case and the trimmed value
\* as a single-quoted literal, whatever the value looks like; the compiled
\* conditions are joined in the order of the filter with " and ".
C23_ComparisonsEmitQuotedLiterals ==
    compiler.pc = "returned" =>
        LET conditions == compiler.scan.conditions
            compiled == compiler.result.compiled
        IN  /\ Len(compiled) = Len(conditions)
            /\ \A k \in 1..Len(conditions) :
                   LET match == MatchCondition(conditions[k])
                   IN  match.matched =>
                           /\ compiled[k].text = ComparisonText(match)
                           /\ SingleQuoted(formatWhereValue(trim(match.value)))
            /\ compiler.result.text = Join(Texts(compiled), " and ")

(***************************************************************************)
(* Properties of formatWhereValue, validateInclude and formatOrderBy       *)
(* (SpecHelpers).                                                           *)
(***************************************************************************)
\* the body of a single-quoted literal read back: two single quotes stand
\* for one; a single quote that stands alone makes the literal invalid
RECURSIVE DecodeBody(_)
DecodeBody(body) ==
    IF body = "" THEN [ok |-> TRUE, text |-> ""]
    ELSE IF CharAt(body, 1) # "'"
    THEN LET rest == DecodeBody(Slice(body, 2, Len(body)))
         IN  [ok |-> rest.ok, text |-> CharAt(body, 1) \o rest.text]
    ELSE IF CharAt(body, 2) = "'"
    THEN LET rest == DecodeBody(Slice(body, 3, Len(body)))
         IN  [ok |-> rest.ok, text |-> "'" \o rest.text]
    ELSE [ok |-> FALSE, text |-> ""]

\* a literal is one outer pair of single quotes around a body
Decode(literal) ==
    IF SingleQuoted(literal) THEN DecodeBody(Slice(literal, 2, Len(literal) - 1))
    ELSE [ok |-> FALSE, text |-> ""]

ValueFormatted ==
    helper.fn = "formatWhereValue" /\ helper.pc \in {"returned", "requoted"}

\* C24: for every string value formatWhereValue returns one outer pair of
\* single quotes around a body in which every single quote is doubled: the
\* result reads back as a string literal, and what it reads back to is the
\* value without the quote character it starts with and the one it ends
\* with, whether or not the caller had quoted the value.
C24_StringLiteralsValidlyQuoted ==
    ValueFormatted =>
        /\ Decode(helper.output).ok
        /\ Decode(helper.output).text = Unquoted(helper.value)

\* a value with a single quote inside has been formatted
C24_Witness ==
    /\ helper.fn = "formatWhereValue"
    /\ helper.value = "a'a"
    /\ helper.pc = "returned"
    /\ helper.output = "'a''a'"

NoQuotes(s) == \A k \in 1..Len(s) : ~IsQuoteChar(CharAt(s, k))

\* C25: for every string s without quote characters,
\* formatWhereValue(formatWhereValue(s)) = formatWhereValue(s).
C25_RequotingIsIdempotent ==
    (/\ helper.fn = "formatWhereValue"
     /\ helper.pc = "requoted"
     /\ NoQuotes(helper.value))
        => helper.again = helper.output

\* the literal of a value without quotes has been formatted again
C25_Witness ==
    /\ helper.fn = "formatWhereValue"
    /\ helper.value = "a a"
    /\ helper.pc = "requoted"
    /\ helper.again = "'a a'"

\* the normalised name of an entry of the include list
NormalizedName(entry) == formatWhereField(trim(entry))

\* ^[A-Za-z.]+$
OnlyLettersAndDots(name) ==
    /\ name # ""
    /\ \A k \in 1..Len(name) :
           \/ HasChar(UpperCaseLetters, CharAt(name, k))
           \/ HasChar(LowerCaseLetters, CharAt(name, k))
           \/ CharAt(name, k) = "."

NotBlank(entry) == ~Blank(entry)

\* the bracketed list of the normalised names of the entries that are not
\* blank, in the order of the input
BracketedNames(include) ==
    LET kept == SelectSeq(include, NotBlank)
    IN  "[" \o Join([k \in 1..Len(kept) |-> NormalizedName(kept[k])], ",") \o "]"

IncludeEnded ==
    helper.fn = "validateInclude" /\ helper.pc \in {"returned", "thrown"}

\* C26: validateInclude returns the normalised names in the order of the
\* input, joined with commas and wrapped in one pair of brackets
\* (Project, Team.Lead gives [Project,Team.Lead]); when the normalised name
\* of an entry does not match ^[A-Za-z.]+$ it fails with the ValidationError
\* that names the first such name and returns nothing (Bad Name! fails).
C26_IncludeBracketedOrRejected ==
    IncludeEnded =>
        LET include == helper.include
            rejected == {k \in 1..Len(include) :
                            ~OnlyLettersAndDots(NormalizedName(include[k]))}
        IN  /\ helper.pc = "returned" =>
                   helper.output = BracketedNames(include)
            /\ helper.pc = "thrown" =>
                   /\ helper.output = ""
                   /\ \E k \in rejected :
                          /\ helper.error =
                                 McpError(<<"Invalid include parameter:",
                                            NormalizedName(include[k])>>)
                          /\ \A j \in 1..(k - 1) : j \in rejected => Blank(include[j])
            /\ (\E k \in rejected : ~Blank(include[k])) => helper.pc = "thrown"
            /\ include = <<"Project", "Team.Lead">> =>
                   helper.pc = "returned" /\ helper.output = "[Project,Team.Lead]"
            /\ include = <<"Bad Name!">> => helper.pc = "thrown"

\* a list with a valid entry before an invalid one has been rejected
C26_Witness ==
    /\ helper.fn = "validateInclude"
    /\ helper.include = <<"Team.Lead", "Bad Name!">>
    /\ helper.pc = "thrown"
    /\ helper.error = McpError(<<"Invalid include parameter:", "BadName!">>)

\* C27: an entry that is only whitespace is dropped: a list whose other
\* entries have valid normalised names is returned as the bracketed list of
\* those names.
C27_BlankEntriesDropped ==
    (/\ IncludeEnded
     /\ \A k \in 1..Len(helper.include) :
            \/ Blank(helper.include[k])
            \/ OnlyLettersAndDots(NormalizedName(helper.include[k])))
        => /\ helper.pc = "returned"
           /\ helper.output = BracketedNames(helper.include)

\* what an entry of the orderBy list is to be serialised to: the words of a
\* string entry stay apart, an object gives its normalised field and its
\* direction
OrderByText(item) ==
    IF item.kind = "object" THEN formatWhereField(item.field) \o " " \o item.direction
    ELSE LET runs == Runs(item.text, 1)
         IN  Join([k \in 1..Len(runs) |-> Slice(item.text, runs[k][1], runs[k][2])], " ")

\* C28: formatOrderBy serialises a string entry "<Field> <direction>" with
\* the field and the direction as separate words, an object entry as its
\* normalised field, a space and its direction, and joins the entries in
\* the order of the input with commas.
C28_OrderByKeepsDirectionApart ==
    (helper.fn = "formatOrderBy" /\ helper.pc = "returned")
        => helper.output =
               Join([k \in 1..Len(helper.orderBy) |-> OrderByText(helper.orderBy[k])],
                    ",")

(***************************************************************************)
(* Properties of extractErrorMessage and handleApiResponse (SpecHelpers).  *)
(***************************************************************************)
ErrorFields(response) ==
    <<response.data.Message, response.data.ErrorMessage, response.data.Description>>

\* the text of the first field of the error body that passes the test, the
\* status text when the body is not JSON or no field passes
FirstText(response, Passes(_)) ==
    LET fields == ErrorFields(response)
        passing == {k \in 1..Len(fields) : Passes(fields[k])}
    IN  IF ParseOk(response.text) /\ passing # {}
        THEN fields[CHOOSE k \in passing : \A j \in passing : k <= j].text
        ELSE StatusText(response.status)

Present(field) == field.present

\* the error of a response that is not ok: context, status code and text
HttpFailure(context, response, text) ==
    McpError(<<context, "failed:", ToString(response.status), "-">> \o text)

\* handleApiResponse has ended on a response that is not 2xx
ErrorHandled ==
    /\ helper.fn = "handleApiResponse"
    /\ helper.pc \in {"returned", "thrown"}
    /\ ~Ok(helper.response)

\* C29 as stated: the error raised for a response that is not 2xx carries
\* the context, the status code and the text of the first field among
\* Message, ErrorMessage and Description that is present in the body, or the
\* status text when none is present or the body is not JSON.
C29_ErrorTextFirstPresent ==
    ErrorHandled =>
        /\ helper.pc = "thrown"
        /\ helper.error = HttpFailure(ContextOf("entity"), helper.response,
                                      FirstText(helper.response, Present))

\* C29 as amended: the text is that of the first field that is present and
\* not empty, or the status text when there is none or the body is not
\* JSON.
C29_ErrorTextFirstNonEmpty ==
    ErrorHandled =>
        /\ helper.pc = "thrown"
        /\ helper.error = HttpFailure(ContextOf("entity"), helper.response,
                                      FirstText(helper.response, Truthy))

\* a 500 whose body has an empty Message and an ErrorMessage has been
\* handled: the error carries the text of ErrorMessage
C29_Witness ==
    /\ helper.fn = "handleApiResponse"
    /\ helper.response.status = 500
    /\ helper.response.data.Message = Field(<<>>)
    /\ helper.response.data.ErrorMessage = Field(<<"Oops">>)
    /\ helper.pc = "thrown"
    /\ helper.error = McpError(<<"search UserStorys", "failed:", "500", "-", "Oops">>)

(***************************************************************************)
(* Properties of the priming call among the validations (Spec).            *)
(***************************************************************************)
\* C30: in every reachable state, however the steps of the
\* validateEntityType calls and of the priming call the server issues at
\* startup interleave, at most one discovery call is in flight.
C30_OneDiscoveryInFlight == Cardinality(Pending) <= 1

\* the discovery call of the priming call is in flight and every
\* validateEntityType call awaits it
C30_Witness ==
    /\ initTask.pc = "awaiting"
    /\ Pending = {initTask.promise}
    /\ \A c \in Calls : calls[c].pc = "awaiting" /\ calls[c].promise = initTask.promise

(***************************************************************************)
(* Properties of cacheInitPromise and of the fallback lists (Spec).        *)
(***************************************************************************)
\* C31: cacheInitPromise is set by the call that starts a discovery before
\* that call suspends, and is cleared when the discovery has completed and
\* the call has resumed, whether the discovery succeeded or failed: while a
\* discovery runs cacheInitPromise is its promise, and when none runs and
\* no continuation is waiting to run cacheInitPromise is empty.
C31_PromiseSetWhileRunningOnly ==
    /\ Pending # {} => cacheInitPromise \in Pending
    /\ (Pending = {} /\ microtasks = <<>>) => cacheInitPromise = 0

\* the call has validated its type against a list bundled with the service
CheckedFallback(c) ==
    Done(c) /\ calls[c].checked.present /\ IsFallback(calls[c].checked.list)

\* C32: the types accepted after a fallback are those of one fixed list,
\* whatever caused the fallback: two validations of the same type against a
\* fallback list end alike, and a type is accepted against the list of a
\* failed discovery exactly when the list of an empty discovery result
\* contains it.
C32_OneFallbackList ==
    /\ \A c, d \in Calls :
           (CheckedFallback(c) /\ CheckedFallback(d) /\ calls[c].type = calls[d].type)
               => calls[c].pc = calls[d].pc
    /\ \A c \in Calls :
           CheckedFallback(c) =>
               (calls[c].pc = "returned" <=> Contains(FallbackOnEmpty, calls[c].type))

\* the continuation that runs next resumes after a discovery that has settled
RefreshCompletes ==
    /\ microtasks # <<>>
    /\ LET p == IF NextTask = InitId THEN initTask.promise ELSE calls[NextTask].promise
       IN  p \in 1..Len(promises) /\ promises[p].state # "pending"

\* C33: a validateEntityType call issued while a list is cached and is not
\* older than cacheExpiryMs (a list exactly that old included) starts no
\* discovery, awaits none, and ends at once against the cached list, leaving
\* the list, the timestamp and cacheInitPromise as they were, whether it
\* returns or throws; the list and the timestamp change only in a step that
\* resumes a call after a discovery that has settled.
C33_FreshCacheUntouched ==
    [][/\ \A c \in Calls :
              (/\ IssuedNow(c)
               /\ validEntityTypesCache.present
               /\ now - cacheTimestamp <= cacheExpiryMs)
                  => /\ promises' = promises
                     /\ validEntityTypesCache' = validEntityTypesCache
                     /\ cacheTimestamp' = cacheTimestamp
                     /\ cacheInitPromise' = cacheInitPromise
                     /\ calls'[c].pc \in {"returned", "thrown"}
                     /\ calls'[c].promise = 0
                     /\ calls'[c].checked = validEntityTypesCache
       /\ (validEntityTypesCache' # validEntityTypesCache \/ cacheTimestamp' # cacheTimestamp)
              => RefreshCompletes]_vars

\* a call found a list exactly as old as its lifetime, awaited nothing and
\* rejected its type against that list
C33_Witness ==
    /\ validEntityTypesCache.present
    /\ now - cacheTimestamp = cacheExpiryMs
    /\ Len(promises) = 1
    /\ \E c \in Calls :
           /\ calls[c].pc = "thrown" /\ calls[c].promise = 0
           /\ calls[c].checked = validEntityTypesCache

(***************************************************************************)
(* Properties of the delays and of the end of a call (SpecRetry).          *)
(***************************************************************************)
RECURSIVE Power(_, _)
Power(base, exponent) ==
    IF exponent = 0 THEN 1 ELSE base * Power(base, exponent - 1)

\* C34: within one executeWithRetry call no delay precedes attempt 1; the
\* delay after failed attempt k is delayMs * backoffFactor^(k-1) (1000 then
\* 2000 under the default configuration); attempt k+1 is made only when the
\* k delays before it have elapsed; and a call that has ended has slept once
\* between two consecutive attempts and not after the last one.
C34_BackoffDelays ==
    /\ Len(retry.delays) = retry.attempt - 1
    /\ \A k \in 1..Len(retry.delays) :
           retry.delays[k] = retry.delayMs * Power(retry.backoffFactor, k - 1)
    /\ retry.pc = "call" => retry.invocations = retry.attempt - 1
    /\ retry.pc = "sleep" =>
           /\ retry.invocations = retry.attempt
           /\ retry.attempt < retry.maxRetries
           /\ retry.delay = retry.delayMs * Power(retry.backoffFactor, retry.attempt - 1)
    /\ Finished(retry) => Len(retry.delays) = retry.invocations - 1
    /\ (/\ retry.maxRetries = DefaultMaxRetries
        /\ retry.delayMs = DefaultDelayMs
        /\ retry.backoffFactor = DefaultBackoffFactor
        /\ retry.invocations = DefaultMaxRetries)
           => retry.delays = <<1000, 2000>>

\* the default configuration, three failed attempts, two delays
C34_Witness ==
    /\ retry.pc = "thrown"
    /\ retry.maxRetries = 3 /\ retry.delayMs = 1000 /\ retry.backoffFactor = 2
    /\ retry.invocations = 3
    /\ retry.delays = <<1000, 2000>>

\* how a call that has ended has ended: with the result of its last
\* invocation, with the terminal error of its last invocation, or with
\* RetriesExhausted after maxRetries invocations
EndsProperly(r) ==
    \/ r.pc = "returned" /\ r.result.type = "ok"
    \/ /\ r.pc = "thrown" /\ r.result.type = "err"
       /\ \/ NonRetryable(r.lastError) /\ r.result.error = r.lastError
          \/ /\ r.invocations = r.maxRetries
             /\ r.result.error = RetriesExhausted(r.context, r.maxRetries, r.lastError)

\* C35: when every invocation of the operation answers and every delay
\* elapses, an executeWithRetry call ends: it returns a result, rethrows a
\* terminal error or throws RetriesExhausted; and it never invokes the
\* operation more than maxRetries times.
C35_Terminates ==
    /\ <>Finished(retry)
    /\ [](retry.invocations <= retry.maxRetries)
    /\ [](Finished(retry) => EndsProperly(retry))

\* a call that ended with RetriesExhausted after maxRetries invocations
C35_Witness ==
    /\ retry.pc = "thrown"
    /\ retry.maxRetries = DefaultMaxRetries
    /\ retry.invocations = retry.maxRetries
    /\ ~NonRetryable(retry.lastError)
    /\ retry.result.error = RetriesExhausted(retry.context, retry.maxRetries, retry.lastError)

\* every attempt made so far failed, and none with an HTTP 400 or 401
OnlyRetryableFailures(r) ==
    \A i \in 1..Len(r.kinds) :
        r.kinds[i] # "returned" /\ r.statuses[i] \notin {400, 401}

\* C36: an operation that fails with retryable errors on attempts 1..k-1
\* and succeeds on attempt k <= maxRetries is invoked exactly k times and
\* its result is returned.  A call whose attempts all failed with retryable
\* errors and that has attempts left goes on to the next attempt, so that a
\* success on attempt k is reached; a call that returned made its last
\* invocation on the attempt that succeeded and threw nothing.
C36_SuccessOnAttemptK ==
    /\ (OnlyRetryableFailures(retry) /\ retry.invocations < retry.maxRetries)
           => retry.pc \in {"call", "sleep"}
    /\ retry.pc = "returned" =>
           /\ retry.invocations = Len(retry.kinds)
           /\ retry.invocations = retry.attempt
           /\ retry.invocations <= retry.maxRetries
           /\ retry.kinds[retry.invocations] = "returned"
           /\ \A i \in 1..retry.invocations - 1 : retry.kinds[i] # "returned"
           /\ retry.result.type = "ok"

(***************************************************************************)
(* Properties of the requests of an operation (SpecFacade).                *)
(***************************************************************************)
\* C37: searchEntities validates the entity type before it compiles the
\* where clause or the include list.  A search whose type validation threw
\* fails with the error of that validation, the InvalidEntityType error when
\* the type was rejected against a list, whether its where clause is valid or
\* not; a search fails on its where clause or include list only after its
\* type has been accepted; and a search that failed in the type validation
\* or in a clause has sent no request to the entity endpoint.
C37_TypeValidatedFirst ==
    request.op = "search" =>
        /\ (request.pc \notin {"idle", "start"} /\ calls[1].pc = "thrown")
               => /\ request.pc = "thrown" /\ request.stage = "type"
                  /\ request.error = calls[1].error
                  /\ calls[1].checked.present => IsInvalidEntityType(request.error)
        /\ request.stage \in {"where", "include"}
               => request.pc = "thrown" /\ calls[1].pc = "returned"
        /\ request.stage \in {"type", "where", "include"}
               => /\ request.sent = <<>>
                  /\ retry = IdleRetry

\* a search with a type the cached list does not contain and with a where
\* clause that does not compile has failed with the InvalidEntityType error
C37_Witness ==
    /\ request.op = "search" /\ request.pc = "thrown"
    /\ validateWhereClause(request.where).type = "err"
    /\ calls[1].checked.present /\ ~Contains(calls[1].checked.list, calls[1].type)
    /\ IsInvalidEntityType(request.error)
    /\ request.sent = <<>>

\* how many parameters of a query string carry the given name
Occurrences(params, name) ==
    Cardinality({i \in 1..Len(params) : params[i] = name})

\* C38: every request of one searchEntities or getEntity call, first
\* attempt or retry, carries the same query string, with exactly one
\* access_token parameter: the request of attempt k equals the request of
\* attempt 1.
C38_SameRequestOnRetry ==
    request.op \in {"search", "get"} =>
        \A k \in 1..Len(request.sent) :
            /\ request.sent[k] = request.sent[1]
            /\ Occurrences(request.sent[k], "access_token") = 1

(***************************************************************************)
(* The failed refresh of an expired list (Spec).                           *)
(***************************************************************************)
\* C39: when the refresh of an expired cached list fails, the call that
\* started it replaces the cached list with staticValidEntityTypes and
\* validates against that list: a type the replaced list contained and the
\* static list does not is rejected with the InvalidEntityType error.
C39_FailedRefreshInstallsStaticList ==
    [][\A c \in Calls :
          (/\ calls[c].pc = "awaiting" /\ calls'[c].pc # "awaiting"
           /\ calls[c].starter
           /\ promises[calls[c].promise].state = "rejected"
           /\ validEntityTypesCache.present)
              => /\ validEntityTypesCache' = Cached(staticValidEntityTypes)
                 /\ calls'[c].checked = Cached(staticValidEntityTypes)
                 /\ (/\ Contains(validEntityTypesCache.list, calls[c].type)
                     /\ ~Contains(staticValidEntityTypes, calls[c].type))
                        => /\ calls'[c].pc = "thrown"
                           /\ IsInvalidEntityType(calls'[c].error)]_vars

\* 'Widget' was accepted against the list the remote declared; that list
\* expired, the refresh failed, and the call that started the refresh
\* rejected 'Widget' against the static list
C39_Witness ==
    /\ calls[1].pc = "returned" /\ calls[1].type = "Widget"
    /\ calls[2].pc = "thrown" /\ calls[2].type = "Widget"
    /\ calls[2].starter
    /\ promises[calls[2].promise].state = "rejected"
    /\ cacheTimestamp > 0
    /\ validEntityTypesCache = Cached(staticValidEntityTypes)
    /\ IsInvalidEntityType(calls[2].error)

====
